---- MODULE Spec2Model ----
(***************************************************************************)
(* Model of the Nexus run core: the append-only JSONL event log            *)
(* (src/event_log/writer.rs, reader.rs) and the executor adapter that      *)
(* writes one run into it (src/executor/adapter.rs, parser.rs).            *)
(*                                                                         *)
(* The log file is a sequence of tokens.  A token is a serialized JSON     *)
(* object, a newline, or a run of bytes that is not JSON.  A record is the *)
(* object token followed by the newline token, which is the granularity at *)
(* which BufWriter hands bytes to the file.                                *)
(***************************************************************************)
EXTENDS Integers, Sequences, FiniteSets, TLC

\* ---------------------------------------------------------------- bounds
MaxOpens   == 3     \* successful EventLogWriter::open calls in one behaviour
MaxAppends == 4     \* EventLogWriter::append calls in one behaviour
MaxFaults  == 1     \* I/O errors the file system injects in one behaviour
BufCap     == 3     \* BufWriter capacity, in tokens
MaxRuns    == 1     \* execute_with_logging calls in one behaviour
MaxActions == 2     \* actions one response yields
MaxClock   == 2     \* milliseconds the wall clock can show
MaxChunks  == 2     \* chunks one streamed body yields
MaxFileLen == 3     \* tokens of a log handed to a reader
MaxItems   == 3     \* items of an iterator handed to a filter
MaxStream  == 2     \* items of a stream handed to the stream handler
MaxIdHead  == 2     \* characters of a run id in front of its padding
MaxPatLen  == 4     \* characters of a path pattern
MaxLines   == 3     \* lines of a log handed to EventLogWriter::open
MaxReads   == 3     \* reads of one response body
MaxEvents  == 2     \* helper events appended to one log
MaxDiffLines == 3   \* lines of a diff handed to extract_files_from_diff
MaxTicks   == 3     \* readings the wall clock can give to generate_run_id
MaxCalls   == 3     \* executor calls that generate a run identifier
TicksPerMilli == 2  \* clock readings that fall in one millisecond

Writers == {"w1", "w2"}
Readers == {"r1", "r2"}

\* Run identifiers are numbers: NoRun is the empty identifier, CallerRun the one
\* a direct caller of append() uses ("run_1"), and a positive number t is the
\* identifier generate_run_id formats from the wall clock reading t.
NoRun     == 0 - 1
CallerRun == 0

\* Action identifiers "{prefix}-action-{n}"; prefix NoRun: no run prefix.
NoId == [prefix |-> NoRun, n |-> 0]

\* ---------------------------------------------------------------- tokens
NL   == [k |-> "nl",   seq |-> 0, run |-> NoRun, type |-> "", ev |-> FALSE]
JUNK == [k |-> "junk", seq |-> 0, run |-> NoRun, type |-> "", ev |-> FALSE]

\* Whitespace other than a newline, and bytes that are not valid UTF-8.
WS   == [k |-> "ws",   seq |-> 0, run |-> NoRun, type |-> "", ev |-> FALSE]
BIN  == [k |-> "bin",  seq |-> 0, run |-> NoRun, type |-> "", ev |-> FALSE]

\* A JSON object carrying only event_seq (seq = 0: no numeric event_seq).
RawObj(n) == [k |-> "obj", seq |-> n, run |-> NoRun, type |-> "", ev |-> FALSE]

\* The line append() serializes: the RunEvent plus the injected event_seq.
EventObj(e, n) == [k |-> "obj", seq |-> n, run |-> e.run, type |-> e.type, ev |-> TRUE]

\* Events the callers of append() pass in.
DirectEvents ==
  {[run |-> CallerRun, type |-> "a", aid |-> NoId, kind |-> "", summary |-> << >>,
    count |-> 0]}

\* Contents the log file may have before the first open.
InitContents ==
  { << >>,
    << RawObj(1), NL, JUNK, NL, RawObj(3), NL >>,
    << JUNK >>,
    << RawObj(2) >>,
    << RawObj(0), NL, NL >> }

VARIABLES
  exists,     \* the path names a file
  file,       \* the tokens of the file
  initLen,    \* Len(file) before the first open
  walive,     \* writer -> the EventLogWriter value exists (holds the exclusive lock)
  wbuf,       \* writer -> tokens buffered in its BufWriter
  wseq,       \* writer -> its event_seq field (the next sequence)
  rstate,     \* reader -> "closed", "waiting" (inside lock_shared) or "open"
  faults,     \* I/O errors injected so far
  opens,      \* successful writer opens so far
  nappends,   \* append calls so far
  appended,   \* the events append() returned Ok for, with their event_seq
  opFailed,   \* some append or sync returned an error
  dropLost,   \* some drop swallowed a flush error
  everSynced, \* sync() has been called
  wfloor,     \* writer -> the greatest event_seq of a decodable line when it opened
  lastOp,     \* the last operation and its result
  pc,         \* execute_with_logging: "idle", or "await" inside execute_internal
  xw,         \* the writer the call in progress borrows
  xrun,       \* the run_id of the last call
  xlog,       \* what the last call did to its writer and the network, in order
  ret,        \* what the last call returned
  clock,      \* the last wall clock reading
  nruns,      \* execute_with_logging calls so far
  httpCalls,  \* requests handed to the transport so far
  max_retries,\* CodexClient.max_retries
  cpc,        \* chat_completion_stream: "idle", "backoff", "stream", "closed", "failed"
  clast,      \* what the last HTTP attempt met
  cattempts,  \* HTTP attempts made by the call
  cleft,      \* delays left in the retry strategy
  cret,       \* what send_with_retry returned
  cyield,     \* the items the returned stream has yielded to its consumer
  rpos,       \* reader -> lines its BufReader has consumed
  rlineno,    \* reader -> its line_number field
  ritems,     \* reader -> the items read_next has returned, in order
  rloaded,    \* the last load_all: where it started and what it returned
  fitems,     \* the items of the iterator handed to a filter
  rfilt,      \* the filter applied to fitems and the items it let through
  pin,        \* the response and run_id handed to the parser
  pout,       \* what the parser functions returned for pin
  stream,     \* the items the stream of chat chunks yields, in order
  sendres,    \* what chat_completion_stream returns to the adapter
  dry_run,    \* options.dry_run
  on_chunk,   \* the values the callback was invoked with, in order
  hout,       \* what the stream handler or the executor call returned
  rid,        \* the run_id text handed to the validators
  rout,       \* what parse and for_run returned for rid
  settings,   \* the NexusSettings value handed to validate
  cfgfile,    \* what is at config_path
  cfgout,     \* what validate or load_with_config_path returned
  body,       \* the reads the response body still gives, and how it ends
  sst,        \* StreamState: buffer, pending, done
  syield,     \* the items the unfold stream has returned, in order
  shist,      \* what the unfold stream has met: chunks parsed, [DONE], end of body
  rtin,       \* the events handed to append, in order
  rtout,      \* the lines written for rtin and the events load_all read back
  diffin,     \* the lines of the diff handed to extract_files_from_diff
  diffout,    \* what extract_files_from_diff returned for diffin
  retry,      \* the retry strategy: the backoff's state and the delays left
  slept,      \* the delays the strategy has yielded, in order
  runids      \* the calls that generated a run identifier, in order

logVars == << exists, file, initLen, walive, wbuf, wseq, rstate, faults, opens,
              nappends, appended, opFailed, dropLost, everSynced, wfloor, lastOp >>

execVars == << pc, xw, xrun, xlog, ret, clock, nruns, httpCalls >>

clientVars == << max_retries, cpc, clast, cattempts, cleft, cret, cyield >>

readVars == << rpos, rlineno, ritems, rloaded, fitems, rfilt >>

parseVars == << pin, pout >>

handlerVars == << stream, sendres, dry_run, on_chunk, hout >>

runIdVars == << rid, rout >>

settingsVars == << settings, cfgfile, cfgout >>

sseVars == << body, sst, syield, shist >>

roundTripVars == << rtin, rtout >>

diffVars == << diffin, diffout >>

retryVars == << retry, slept >>

idVars == << runids >>

tailVars == << diffVars, retryVars, idVars >>

laterVars == << sseVars, roundTripVars, tailVars >>

pureVars == << handlerVars, runIdVars, settingsVars, laterVars >>

restVars == << clientVars, parseVars, pureVars >>

moreVars == << restVars, readVars >>

vars == << logVars, execVars, moreVars >>

\* ------------------------------------------------------ reading the file
\* BufRead::lines / read_line: split at newlines; a final line without a
\* newline is still a line.
RECURSIVE SplitLines(_, _)
SplitLines(s, cur) ==
  IF s = << >> THEN (IF cur = << >> THEN << >> ELSE << cur >>)
  ELSE IF Head(s).k = "nl" THEN << cur >> \o SplitLines(Tail(s), << >>)
  ELSE SplitLines(Tail(s), Append(cur, Head(s)))

Lines(f) == SplitLines(f, << >>)

\* str::trim: the line without its whitespace.
Strip(line) == SelectSeq(line, LAMBDA t : t.k # "ws")

\* line.trim().is_empty()
LineBlank(line) == Strip(line) = << >>

\* read_line fails with InvalidData on a line that is not valid UTF-8.
LineReadable(line) == \A i \in DOMAIN line : line[i].k # "bin"

\* serde_json::from_str::<Value> succeeds on a line holding exactly one value,
\* whitespace around it allowed.
LineDecodes(line) == Len(Strip(line)) = 1 /\ Strip(line)[1].k = "obj"

Max(a, b) == IF a >= b THEN a ELSE b

\* The fold of scan_max_event_seq over the lines read so far.
RECURSIVE ScanFold(_, _)
ScanFold(ls, m) ==
  IF ls = << >> THEN m
  ELSE LET line == Head(ls) IN
       IF LineBlank(line) THEN ScanFold(Tail(ls), m)
       ELSE IF ~LineDecodes(line) THEN ScanFold(Tail(ls), m)
       ELSE ScanFold(Tail(ls), Max(m, Strip(line)[1].seq))

scan_max_event_seq(f) == ScanFold(Lines(f), 0)

\* reader.lines() returns an error for a line that is not valid UTF-8, and the
\* scan returns it as IoError.
scan_succeeds(f) == \A i \in DOMAIN Lines(f) : LineReadable(Lines(f)[i])

\* Mutant: continue at the maximum itself.
next_seq_at_max(max_seq) == IF max_seq = 0 THEN 1 ELSE max_seq

next_seq_after(max_seq) == IF max_seq = 0 THEN 1 ELSE max_seq + 1

\* The non-empty lines, and what a reader makes of them.
NonEmptyLines(f) == SelectSeq(Lines(f), LAMBDA line : ~LineBlank(line))

\* serde_json::from_str::<RunEvent>: the line must hold v, run_id, type and time.
LineIsEvent(line) == LineDecodes(line) /\ Strip(line)[1].ev

\* The greatest event_seq among the decodable lines of f (0: there is none).
DecodableSeqs(f) ==
  LET ls == Lines(f)
  IN {Strip(ls[i])[1].seq : i \in {j \in DOMAIN ls : LineDecodes(ls[j])}}
MaxDecodableSeq(f) ==
  LET seqs == DecodableSeqs(f)
  IN IF seqs = {} THEN 0 ELSE CHOOSE m \in seqs : \A n \in seqs : n <= m

\* ---------------------------------------------------------------- locks
AliveWriters == {w \in Writers : walive[w]}
OpenReaders  == {r \in Readers : rstate[r] = "open"}

\* Mutant: the exclusive lock conflicts with shared locks only.
try_lock_ignoring_writers(w) == OpenReaders = {}

\* flock(LOCK_EX | LOCK_NB) on a fresh descriptor of the file.
try_lock_exclusive(w) == AliveWriters \ {w} = {} /\ OpenReaders = {}

\* Mutant: a blocked flock(LOCK_SH) is never granted.
lock_shared_never == FALSE

\* Mutant: the shared lock is granted whoever holds the file.
lock_shared_always == TRUE

\* flock(LOCK_SH) can be granted.
lock_shared_granted == AliveWriters = {}

\* ------------------------------------------------------------ BufWriter
CanFault == faults < MaxFaults

\* Mutant: a flush that replaces the content of the file by the buffer.
FlushOverwriting(buf, f) == {[file |-> buf, buf |-> << >>, ok |-> TRUE]}

\* BufWriter::flush_buf: the file takes a prefix of the buffer; on an error the
\* part already written leaves the buffer and the rest stays.
FlushOutcomes(buf, f) ==
  { [file |-> f \o SubSeq(buf, 1, k),
     buf  |-> SubSeq(buf, k + 1, Len(buf)),
     ok   |-> (k = Len(buf))] :
    k \in (IF CanFault THEN 0 .. Len(buf) ELSE {Len(buf)}) }

\* BufWriter::write_all of one token: flush first when it does not fit.
WriteOutcomes(buf, f, tok) ==
  IF Len(buf) + 1 > BufCap
  THEN { IF o.ok THEN [file |-> o.file, buf |-> << tok >>, ok |-> TRUE]
                 ELSE [file |-> o.file, buf |-> o.buf, ok |-> FALSE] :
         o \in FlushOutcomes(buf, f) }
  ELSE { [file |-> f, buf |-> Append(buf, tok), ok |-> TRUE] }

\* EventLogWriter::append: to_writer(object), write_all("\n"), event_seq += 1.
\* An error leaves whatever was already handed to the BufWriter where it is.
AppendOutcomes(buf, f, seq, e) ==
  UNION { IF ~o1.ok
          THEN { [file |-> o1.file, buf |-> o1.buf, seq |-> seq, ok |-> FALSE,
                  err |-> "Serialization"] }
          ELSE { IF o2.ok
                 THEN [file |-> o2.file, buf |-> o2.buf, seq |-> seq + 1, ok |-> TRUE,
                       err |-> "none"]
                 ELSE [file |-> o2.file, buf |-> o2.buf, seq |-> seq, ok |-> FALSE,
                       err |-> "IoError"] :
                 o2 \in WriteOutcomes(o1.buf, o1.file, NL) } :
          o1 \in WriteOutcomes(buf, f, EventObj(e, seq)) }

\* EventLogWriter::sync: flush, then sync_data (sd: sync_data succeeds).
SyncOutcomes(buf, f) ==
  { [file |-> o.file, buf |-> o.buf, ok |-> (o.ok /\ sd)] :
    o \in FlushOutcomes(buf, f),
    sd \in (IF CanFault THEN {TRUE, FALSE} ELSE {TRUE}) }

Bump(ok) == IF ok THEN faults ELSE faults + 1

\* ------------------------------------------------------- response parser
\* A response, by what the three extractors find in it: the number of unified
\* diffs, the number of search/replace blocks, and the JSON array (absent,
\* malformed, or the identifiers of the actions it lists).
JsonIds(n) == [i \in 1 .. n |-> [prefix |-> NoRun, n |-> i]]

JsonParts ==
  {[k |-> "none", ids |-> << >>], [k |-> "bad", ids |-> << >>]}
    \cup {[k |-> "array", ids |-> JsonIds(n)] : n \in 0 .. MaxActions}

Responses ==
  {[diffs |-> d, srs |-> r, json |-> j] :
     d \in 0 .. MaxActions, r \in 0 .. MaxActions, j \in JsonParts}

OkResult(actions) == [ok |-> TRUE, actions |-> actions, err |-> "none", src |-> "none"]
ErrResult(kind, src) == [ok |-> FALSE, actions |-> << >>, err |-> kind, src |-> src]
NoRet == [ok |-> FALSE, actions |-> << >>, err |-> "none", src |-> "none"]

validate_run_id(run_id) == run_id # NoRun

DEFAULT_RISK == 1
ACTION_INDEX_BASE == 1

\* Mutant: the identifiers count from 0.
generate_action_id_from_zero(run_id, index) == [prefix |-> run_id, n |-> index - 1]

generate_action_id(run_id, index) == [prefix |-> run_id, n |-> index]

\* created_by "": None. The summary is the text generated from the block the
\* action is built from.
build_patch_action(run_id, index, format) ==
  [id |-> generate_action_id(run_id, index), kind |-> "patch", format |-> format,
   summary |-> << format, index >>, risk |-> DEFAULT_RISK, policy_tags |-> << >>, requires_approval |-> TRUE,
   created_by |-> ""]

\* enumerate() counts from 0; the index handed on is index + ACTION_INDEX_BASE.
parse_unified_diffs(resp, run_id) ==
  [i \in 1 .. resp.diffs |->
     build_patch_action(run_id, (i - 1) + ACTION_INDEX_BASE, "unified")]

parse_search_replace(resp, run_id) ==
  [i \in 1 .. resp.srs |->
     build_patch_action(run_id, (i - 1) + ACTION_INDEX_BASE, "search_replace")]

\* serde deserializes each element as written: the id and the other fields are
\* those of the text.
parse_json_actions(resp) ==
  IF resp.json.k = "bad" THEN ErrResult("JsonError", "upstream")
  ELSE OkResult([i \in 1 .. Len(resp.json.ids) |->
                   [id |-> resp.json.ids[i],
                    kind |-> IF i = 1 THEN "command" ELSE "file_create",
                    format |-> "whole_file", summary |-> << "json", i >>, risk |-> 2, policy_tags |-> << "tag" >>, requires_approval |-> FALSE,
                    created_by |-> "model"]])

\* Mutant: the search/replace blocks are tried before the unified diffs.
parse_search_replace_first(resp, run_id) ==
  IF ~validate_run_id(run_id) THEN ErrResult("InvalidRunId", "upstream")
  ELSE IF parse_search_replace(resp, run_id) # << >>
       THEN OkResult(parse_search_replace(resp, run_id))
  ELSE IF parse_unified_diffs(resp, run_id) # << >>
       THEN OkResult(parse_unified_diffs(resp, run_id))
  ELSE parse_json_actions(resp)

parse(resp, run_id) ==
  IF ~validate_run_id(run_id) THEN ErrResult("InvalidRunId", "upstream")
  ELSE IF parse_unified_diffs(resp, run_id) # << >>
       THEN OkResult(parse_unified_diffs(resp, run_id))
  ELSE IF parse_search_replace(resp, run_id) # << >>
       THEN OkResult(parse_search_replace(resp, run_id))
  ELSE parse_json_actions(resp)

\* --------------------------------------------------------- event helpers
\* An event by its run_id, its type and the payload fields the adapter sets:
\* action_id, kind and summary of action.proposed, action_count of
\* executor.completed.
executor_started(run_id) ==
  [run |-> run_id, type |-> "executor.started", aid |-> NoId, kind |-> "",
   summary |-> << >>, count |-> 0]
action_proposed(run_id, action_id, kind, summary) ==
  [run |-> run_id, type |-> "action.proposed", aid |-> action_id, kind |-> kind,
   summary |-> summary, count |-> 0]
executor_completed(run_id, action_count) ==
  [run |-> run_id, type |-> "executor.completed", aid |-> NoId, kind |-> "",
   summary |-> << >>, count |-> action_count]
executor_failed(run_id) ==
  [run |-> run_id, type |-> "executor.failed", aid |-> NoId, kind |-> "",
   summary |-> << >>, count |-> 0]

\* action_kind_label: the label of each ActionKindTag, named here by its serde name.
action_kind_label(kind) ==
  CASE kind = "handoff" -> "handoff"
    [] kind = "patch" -> "patch"
    [] kind = "command" -> "command"
    [] kind = "plan_patch" -> "plan_patch"
    [] kind = "agenda_patch" -> "agenda_patch"
    [] kind = "file_create" -> "file_create"
    [] kind = "file_rename" -> "file_rename"
    [] kind = "file_delete" -> "file_delete"

\* Mutant: the last action gets no action.proposed.
ActionsLoggedButLast(actions) == SubSeq(actions, 1, Len(actions) - 1)

\* `for action in &actions`: the actions an action.proposed is built for.
ActionsLogged(actions) == actions

\* ------------------------------------------------------ executor adapter
\* Errors chat_completion_stream and the stream accumulator hand up.
UpstreamErrors == {"ApiError", "StreamInterrupted"}

\* generate_run_id: the identifier is the formatted clock reading.
generate_run_id(now) == now

\* What execute_internal can return for a request that went out.
InternalResults(run_id) ==
  {ErrResult(e, "upstream") : e \in UpstreamErrors}
    \cup {parse(resp, run_id) : resp \in Responses}

\* Mutant: executor.completed is appended before the proposals.
OkArmEventsCompletedFirst(run_id, actions) ==
  << [run |-> run_id, type |-> "executor.completed", aid |-> NoId, kind |-> "",
      summary |-> << >>, count |-> Len(actions)] >>
    \o [i \in 1 .. Len(actions) |->
          [run |-> run_id, type |-> "action.proposed", aid |-> actions[i].id,
           kind |-> actions[i].kind, summary |-> actions[i].summary, count |-> 0]]

\* The events the Ok arm appends, in order.
OkArmEvents(run_id, actions) ==
  [i \in 1 .. Len(ActionsLogged(actions)) |->
     action_proposed(run_id, actions[i].id, action_kind_label(actions[i].kind),
                     actions[i].summary)]
    \o << executor_completed(run_id, Len(actions)) >>

\* Mutant: the Err arm logs the failure twice.
ErrArmEventsTwice(run_id) == << executor_failed(run_id), executor_failed(run_id) >>

\* The events the Err arm appends.
ErrArmEvents(run_id) == << executor_failed(run_id) >>

\* What the call returns when the arm's appends and its sync all succeeded.
OkArmReturn(actions) == OkResult(actions)
ErrArmReturn(err) == err

LogEntry(op, e, ok) ==
  [op |-> op, type |-> e.type, run |-> e.run, aid |-> e.aid, kind |-> e.kind,
   summary |-> e.summary, count |-> e.count, ok |-> ok]
SyncEntry(ok) ==
  [op |-> "sync", type |-> "", run |-> NoRun, aid |-> NoId, kind |-> "",
   summary |-> << >>, count |-> 0, ok |-> ok]
InternalEntry(result) ==
  [op |-> "internal", type |-> result.err, run |-> NoRun, aid |-> NoId, kind |-> "",
   summary |-> << >>, count |-> 0, ok |-> result.ok]
HttpEntry ==
  [op |-> "http", type |-> "", run |-> NoRun, aid |-> NoId, kind |-> "",
   summary |-> << >>, count |-> 0, ok |-> TRUE]

\* writer.append(e)? for each e of es in turn: the first error ends the chain.
\* n: how many appends returned Ok.
RECURSIVE AppendChain(_, _, _, _)
AppendChain(buf, f, seq, es) ==
  IF es = << >>
  THEN {[file |-> f, buf |-> buf, seq |-> seq, ok |-> TRUE, err |-> "none", n |-> 0]}
  ELSE UNION { IF ~o.ok
               THEN {[file |-> o.file, buf |-> o.buf, seq |-> o.seq, ok |-> FALSE,
                      err |-> o.err, n |-> 0]}
               ELSE {[r EXCEPT !.n = r.n + 1] :
                       r \in AppendChain(o.buf, o.file, o.seq, Tail(es))} :
               o \in AppendOutcomes(buf, f, seq, Head(es)) }

\* One arm of execute_with_logging, up to its return: the appends with `?`,
\* then sync()?, then the arm's value.
ArmOutcomes(buf, f, seq, es, value) ==
  UNION { IF ~c.ok
          THEN {[file |-> c.file, buf |-> c.buf, seq |-> c.seq, n |-> c.n, fault |-> TRUE,
                 synced |-> FALSE,
                 log |-> [i \in 1 .. c.n + 1 |-> LogEntry("append", es[i], i <= c.n)],
                 ret |-> ErrResult(c.err, "log")]}
          ELSE {[file |-> s.file, buf |-> s.buf, seq |-> c.seq, n |-> c.n, fault |-> ~s.ok,
                 synced |-> TRUE,
                 log |-> [i \in 1 .. c.n |-> LogEntry("append", es[i], TRUE)]
                           \o << SyncEntry(s.ok) >>,
                 ret |-> IF s.ok THEN value ELSE ErrResult("IoError", "log")] :
                s \in SyncOutcomes(c.buf, c.file)} :
          c \in AppendChain(buf, f, seq, es) }

\* The call in progress holds the &mut borrow of its writer.
Busy(w) == pc = "await" /\ xw = w

\* ------------------------------------------------------ transport client
DEFAULT_MAX_RETRIES == 3
REQUEST_TIMEOUT_SECS == 60

\* Option::None for the numeric fields of an error.
None == 0 - 1

\* NexusError values of the transport.
RequestTimeout == [kind |-> "RequestTimeout", status_code |-> None, retry_after |-> None,
                   message |-> "", timeout_secs |-> REQUEST_TIMEOUT_SECS]
RateLimited(retry_after) ==
  [kind |-> "RateLimited", status_code |-> None, retry_after |-> retry_after,
   message |-> "", timeout_secs |-> None]
ApiError(message, status_code) ==
  [kind |-> "ApiError", status_code |-> status_code, retry_after |-> None,
   message |-> message, timeout_secs |-> None]
StreamInterrupted == [kind |-> "StreamInterrupted", status_code |-> None,
                      retry_after |-> None, message |-> "", timeout_secs |-> None]
NoError == [kind |-> "none", status_code |-> None, retry_after |-> None,
            message |-> "", timeout_secs |-> None]

\* A Retry-After header: absent, a decimal u64, or any other text.
RetryAfterHeaders ==
  {[k |-> "absent", n |-> 0], [k |-> "int", n |-> 42], [k |-> "int", n |-> 0],
   [k |-> "text", n |-> 0]}
NoHeader == [k |-> "absent", n |-> 0]

Statuses == {200, 204, 304, 400, 401, 404, 408, 429, 500, 503}

\* What one HTTP attempt can meet: an error of reqwest's send() (which may be a
\* timeout, a connection error, both or neither), or a response with a status,
\* a Retry-After header and a body that can or cannot be read.
AttemptOutcomes ==
  {[k |-> "send_error", timeout |-> t, connect |-> c, status |-> 0,
    header |-> NoHeader, body_ok |-> TRUE] : t \in BOOLEAN, c \in BOOLEAN}
    \cup {[k |-> "response", timeout |-> FALSE, connect |-> FALSE, status |-> st,
           header |-> h, body_ok |-> b] :
          st \in Statuses, h \in RetryAfterHeaders, b \in BOOLEAN}
NoAttempt == [k |-> "none", timeout |-> FALSE, connect |-> FALSE, status |-> 0,
              header |-> NoHeader, body_ok |-> TRUE]

Retryable(err) == [ok |-> FALSE, retryable |-> TRUE, err |-> err]
Fatal(err) == [ok |-> FALSE, retryable |-> FALSE, err |-> err]
Response == [ok |-> TRUE, retryable |-> FALSE, err |-> NoError]

map_request_error(o) ==
  IF o.timeout THEN Retryable(RequestTimeout)
  ELSE IF o.connect THEN Retryable(ApiError("connection error", None))
  ELSE Fatal(ApiError("request failed", None))

is_success(status) == status >= 200 /\ status <= 299
is_server_error(status) == status >= 500 /\ status <= 599

\* Mutant: every client error status is retried too.
is_retryable_status_4xx(status) == status >= 400

is_retryable_status(status) ==
  status = 429 \/ status = 408 \/ is_server_error(status)

classify_status_error(status, error) ==
  IF is_retryable_status(status) THEN Retryable(error) ELSE Fatal(error)

parse_retry_after(header) == IF header.k = "int" THEN header.n ELSE None

send_request(o) ==
  IF o.k = "send_error" THEN map_request_error(o)
  ELSE IF is_success(o.status) THEN Response
  ELSE IF o.status = 429 THEN Retryable(RateLimited(parse_retry_after(o.header)))
  ELSE IF ~o.body_ok
       THEN classify_status_error(o.status,
                                  ApiError("failed to read error response body", o.status))
  ELSE classify_status_error(o.status, ApiError("body", o.status))

is_retryable(r) == r.retryable
into_nexus(r) == r.err

\* Mutant: the strategy yields one delay more than max_retries.
build_retry_strategy_plus_one(retries) == retries + 1

\* build_retry_strategy: the number of delays the strategy yields.
build_retry_strategy(retries) == retries

\* What the body stream gives at one poll of the returned stream: bytes that
\* complete a chunk, bytes that complete [DONE], bytes that do not parse, an
\* error of the connection (a timeout or not), or the end of the body with the
\* buffer empty or holding an incomplete event.
BodyEvents == {"chunk", "done", "bad_event", "io_error", "io_timeout", "eof", "eof_partial"}

\* The item the stream yields for a body event ("none": the stream ends).
StreamItem(ev) ==
  CASE ev = "chunk" -> [k |-> "ok", err |-> NoError]
    [] ev = "bad_event" -> [k |-> "err", err |-> StreamInterrupted]
    [] ev = "io_error" -> [k |-> "err", err |-> StreamInterrupted]
    [] ev = "io_timeout" -> [k |-> "err", err |-> RequestTimeout]
    [] ev = "eof_partial" -> [k |-> "err", err |-> StreamInterrupted]
    [] OTHER -> [k |-> "none", err |-> NoError]

\* Mutant: an error of the body sends the request again.
AfterBodyErrorResend(att) == [pc |-> "stream", attempts |-> att + 1]

\* An error item sets state.done: the stream is over, nothing is sent again.
AfterBodyError(att) == [pc |-> "closed", attempts |-> att]

\* with_max_retries, before the client is used.
RetrySettings == {0, 1}

CWithMaxRetries ==
  /\ cpc = "idle"
  /\ max_retries = DEFAULT_MAX_RETRIES
  /\ \E retries \in RetrySettings : max_retries' = retries
  /\ UNCHANGED << cpc, clast, cattempts, cleft, cret, cyield >>
  /\ UNCHANGED << logVars, execVars, parseVars, readVars, pureVars >>

\* One attempt of send_with_retry: send_request, then RetryIf's decision.
CSend ==
  /\ cpc \in {"idle", "backoff"}
  /\ \E o \in AttemptOutcomes :
       LET r == send_request(o)
           left == IF cpc = "idle" THEN build_retry_strategy(max_retries) ELSE cleft
       IN /\ clast' = o
          /\ cattempts' = cattempts + 1
          /\ IF r.ok
             THEN /\ cpc' = "stream"
                  /\ cret' = [ok |-> TRUE, err |-> NoError]
                  /\ cleft' = left
             ELSE IF is_retryable(r) /\ left > 0
             THEN /\ cpc' = "backoff"
                  /\ cleft' = left - 1
                  /\ UNCHANGED cret
             ELSE /\ cpc' = "failed"
                  /\ cret' = [ok |-> FALSE, err |-> into_nexus(r)]
                  /\ cleft' = left
  /\ UNCHANGED << max_retries, cyield >>
  /\ UNCHANGED << logVars, execVars, parseVars, readVars, pureVars >>

\* One poll of the stream chat_completion_stream returned.
CPoll ==
  /\ cpc = "stream"
  /\ \E ev \in (IF Len(cyield) < MaxChunks THEN BodyEvents ELSE BodyEvents \ {"chunk"}) :
       LET item == StreamItem(ev)
       IN IF item.k = "ok"
          THEN /\ cyield' = Append(cyield, item)
               /\ UNCHANGED << cpc, cattempts >>
          ELSE IF item.k = "err"
          THEN /\ cyield' = Append(cyield, item)
               /\ cpc' = AfterBodyError(cattempts).pc
               /\ cattempts' = AfterBodyError(cattempts).attempts
          ELSE /\ cpc' = "closed"
               /\ UNCHANGED << cyield, cattempts >>
  /\ UNCHANGED << max_retries, clast, cleft, cret >>
  /\ UNCHANGED << logVars, execVars, parseVars, readVars, pureVars >>

\* ------------------------------------------------------ event log reader
\* The items of EventIterator: Ok(event), EventLogCorrupted{line}, IoError;
\* NoItem stands for the None that ends the iteration.
OkItem(obj) == [k |-> "ok", seq |-> obj.seq, run |-> obj.run, type |-> obj.type, line |-> 0]
CorruptItem(n) == [k |-> "corrupt", seq |-> 0, run |-> NoRun, type |-> "", line |-> n]
IoItem == [k |-> "io", seq |-> 0, run |-> NoRun, type |-> "", line |-> 0]
NoItem == [k |-> "none", seq |-> 0, run |-> NoRun, type |-> "", line |-> 0]

\* self.line_number += 1, made before the test for a whitespace-only line.
CountBlankLine(n) == n + 1

\* EventLogReader::read_next on the lines ls, pos of them consumed, line_number n:
\* the item returned and the reader's new position and line_number. read_line
\* consumes a line that is not valid UTF-8, returns an error for it, and the
\* line_number is not incremented on that path.
RECURSIVE read_next(_, _, _)
read_next(ls, pos, n) ==
  IF pos >= Len(ls) THEN [item |-> NoItem, pos |-> pos, n |-> n]
  ELSE LET line == ls[pos + 1] IN
       IF ~LineReadable(line) THEN [item |-> IoItem, pos |-> pos + 1, n |-> n]
       ELSE IF LineBlank(line) THEN read_next(ls, pos + 1, CountBlankLine(n))
       ELSE IF LineIsEvent(line)
            THEN [item |-> OkItem(Strip(line)[1]), pos |-> pos + 1, n |-> n + 1]
       ELSE [item |-> CorruptItem(n + 1), pos |-> pos + 1, n |-> n + 1]

\* Everything the iterator yields from a position on, until None.
RECURSIVE IterAll(_, _, _)
IterAll(ls, pos, n) ==
  LET r == read_next(ls, pos, n)
  IN IF r.item.k = "none" THEN << >>
     ELSE << r.item >> \o IterAll(ls, r.pos, r.n)

\* Where the reader stands once the iterator has returned None.
RECURSIVE IterEnd(_, _, _)
IterEnd(ls, pos, n) ==
  LET r == read_next(ls, pos, n)
  IN IF r.item.k = "none" THEN r ELSE IterEnd(ls, r.pos, r.n)

\* Mutant: load_all gives up at the first corrupted line.
load_all_strict_step(item) == IF item.k = "ok" THEN "push" ELSE "return"

\* The arms of the match in load_all.
load_all_step(item) ==
  IF item.k = "ok" THEN "push"
  ELSE IF item.k = "corrupt" THEN "skip"
  ELSE "return"

\* EventLogReader::load_all from a position: the loop over self.iter().
RECURSIVE load_all(_, _, _, _)
load_all(ls, pos, n, events) ==
  LET r == read_next(ls, pos, n)
  IN IF r.item.k = "none"
     THEN [k |-> "ok", events |-> events, err |-> NoItem, pos |-> r.pos, n |-> r.n,
           read |-> << >>]
     ELSE IF load_all_step(r.item) = "return"
     THEN [k |-> "err", events |-> << >>, err |-> r.item, pos |-> r.pos, n |-> r.n,
           read |-> << r.item >>]
     ELSE LET rest == load_all(ls, r.pos, r.n,
                               IF load_all_step(r.item) = "push"
                               THEN Append(events, r.item) ELSE events)
          IN [rest EXCEPT !.read = << r.item >> \o rest.read]

NoLoad == [k |-> "none", events |-> << >>, err |-> NoItem, from |-> 0, n |-> 0]

\* Mutant: a filter that drops the errors as well.
keep_by_run_ok_only(item, run_id) == item.k = "ok" /\ item.run = run_id

\* The closures of filter_by_run and filter_by_type.
keep_by_run(item, run_id) == IF item.k = "ok" THEN item.run = run_id ELSE TRUE
keep_by_type(item, event_type) == IF item.k = "ok" THEN item.type = event_type ELSE TRUE

filter_by_run(items, run_id) == SelectSeq(items, LAMBDA it : keep_by_run(it, run_id))
filter_by_type(items, event_type) == SelectSeq(items, LAMBDA it : keep_by_type(it, event_type))

NoFilter == [by |-> "none", run |-> NoRun, type |-> "", out |-> << >>]

\* The run ids and event types of the events a log holds and the filters ask for.
LogRuns == {CallerRun, 1}
LogTypes == {"a", "b"}

\* The contents a reader is opened on: every sequence of at most MaxFileLen
\* tokens.
ReadTokens ==
  {EventObj([run |-> r, type |-> t], 1) : r \in LogRuns, t \in LogTypes}
    \cup {RawObj(1), JUNK, WS, BIN, NL}
ReadContents == UNION {[1 .. n -> ReadTokens] : n \in 0 .. MaxFileLen}

\* The reader starts at the beginning of the file with line_number 0.
StartReading(r) ==
  /\ rpos' = [rpos EXCEPT ![r] = 0]
  /\ rlineno' = [rlineno EXCEPT ![r] = 0]
  /\ ritems' = [ritems EXCEPT ![r] = << >>]
  /\ UNCHANGED << rloaded, fitems, rfilt >>

\* One next() of reader.iter() that returns an item.
RNext(r) ==
  /\ rstate[r] = "open"
  /\ LET res == read_next(Lines(file), rpos[r], rlineno[r])
     IN /\ res.item.k # "none"
        /\ rpos' = [rpos EXCEPT ![r] = res.pos]
        /\ rlineno' = [rlineno EXCEPT ![r] = res.n]
        /\ ritems' = [ritems EXCEPT ![r] = Append(@, res.item)]
  /\ UNCHANGED << rloaded, fitems, rfilt >>
  /\ UNCHANGED << logVars, execVars, restVars >>

\* reader.load_all() from where the reader stands.
RLoadAll(r) ==
  /\ rstate[r] = "open"
  /\ LET res == load_all(Lines(file), rpos[r], rlineno[r], << >>)
     IN /\ rpos' = [rpos EXCEPT ![r] = res.pos]
        /\ rlineno' = [rlineno EXCEPT ![r] = res.n]
        /\ ritems' = [ritems EXCEPT ![r] = @ \o res.read]
        /\ rloaded' = [k |-> res.k, events |-> res.events, err |-> res.err,
                       from |-> rpos[r], n |-> rlineno[r]]
  /\ UNCHANGED << fitems, rfilt >>
  /\ UNCHANGED << logVars, execVars, restVars >>

\* The items handed to the filters: every sequence of at most MaxItems items.
FilterItems ==
  {OkItem(EventObj([run |-> r, type |-> t], 1)) : r \in LogRuns, t \in LogTypes}
    \cup {CorruptItem(1), IoItem}
FilterInputs == UNION {[1 .. n -> FilterItems] : n \in 0 .. MaxItems}

\* filter_by_run(items, run_id), collected.
FilterByRun ==
  /\ rfilt.by = "none"
  /\ \E run_id \in LogRuns \cup {NoRun} :
       rfilt' = [by |-> "run", run |-> run_id, type |-> "",
                 out |-> filter_by_run(fitems, run_id)]
  /\ UNCHANGED << rpos, rlineno, ritems, rloaded, fitems >>
  /\ UNCHANGED << logVars, execVars, restVars >>

\* filter_by_type(items, event_type), collected.
FilterByType ==
  /\ rfilt.by = "none"
  /\ \E event_type \in LogTypes \cup {""} :
       rfilt' = [by |-> "type", run |-> NoRun, type |-> event_type,
                 out |-> filter_by_type(fitems, event_type)]
  /\ UNCHANGED << rpos, rlineno, ritems, rloaded, fitems >>
  /\ UNCHANGED << logVars, execVars, restVars >>

\* ------------------------------------------------- the parser's functions
NoInput == [resp |-> [diffs |-> 0, srs |-> 0, json |-> [k |-> "none", ids |-> << >>]],
            run_id |-> NoRun, given |-> FALSE]
NoOutput == [fn |-> "none", result |-> NoRet]

\* The run ids handed to the parser: the empty one and two valid ones.
ParseRunIds == {NoRun, CallerRun, 1}
ParseInputs ==
  {[resp |-> r, run_id |-> id, given |-> TRUE] : r \in Responses, id \in ParseRunIds}

PParse ==
  /\ pin.given /\ pout.fn = "none"
  /\ pout' = [fn |-> "parse", result |-> parse(pin.resp, pin.run_id)]
  /\ UNCHANGED pin
  /\ UNCHANGED << logVars, execVars, clientVars, readVars, pureVars >>

PUnifiedDiffs ==
  /\ pin.given /\ pout.fn = "none"
  /\ pout' = [fn |-> "parse_unified_diffs",
              result |-> OkResult(parse_unified_diffs(pin.resp, pin.run_id))]
  /\ UNCHANGED pin
  /\ UNCHANGED << logVars, execVars, clientVars, readVars, pureVars >>

PSearchReplace ==
  /\ pin.given /\ pout.fn = "none"
  /\ pout' = [fn |-> "parse_search_replace",
              result |-> OkResult(parse_search_replace(pin.resp, pin.run_id))]
  /\ UNCHANGED pin
  /\ UNCHANGED << logVars, execVars, clientVars, readVars, pureVars >>

PJsonActions ==
  /\ pin.given /\ pout.fn = "none"
  /\ pout' = [fn |-> "parse_json_actions", result |-> parse_json_actions(pin.resp)]
  /\ UNCHANGED pin
  /\ UNCHANGED << logVars, execVars, clientVars, readVars, pureVars >>


\* ------------------------------------------------------- stream handler
PRIMARY_CHOICE_INDEX == 0
FINISH_REASON_STOP == "stop"

\* Option<T>: None is the empty sequence, Some(x) the sequence of x alone.
Absent == << >>
Some(x) == << x >>

\* A text is a sequence of blocks: "d" a complete unified diff, "s" a complete
\* search/replace block, "t" anything else.
Texts == {<< >>, << "d" >>, << "s" >>, << "t" >>}

\* StreamChunk values the callback receives.
Text(text) == [k |-> "Text", text |-> text]
Done == [k |-> "Done", text |-> << >>]

\* ChunkChoice: delta.content and finish_reason.
ChunkChoice(content, finish_reason) ==
  [content |-> content, finish_reason |-> finish_reason]

\* The first element of choices: with or without content, finished by "stop",
\* by "length" or not at all.
FirstChoices ==
  {ChunkChoice(c, f) : c \in {Absent} \cup {Some(t) : t \in {<< "d" >>, << "s" >>}},
                       f \in {Absent, Some(FINISH_REASON_STOP)}}
    \cup {ChunkChoice(Some(<< >>), Absent), ChunkChoice(Some(<< "t" >>), Some("length"))}

\* A second element of choices.
OtherChoice == ChunkChoice(Some(<< "t" >>), Some(FINISH_REASON_STOP))

\* ChatChunk, by its choices.
ChatChunks ==
  {[choices |-> << >>]}
    \cup {[choices |-> << c >>] : c \in FirstChoices}
    \cup {[choices |-> << c, OtherChoice >>] : c \in FirstChoices}

\* Items of the stream: Ok(chunk) or Err(error).
OkChunk(chunk) == [ok |-> TRUE, chunk |-> chunk, err |-> NoError]
ErrChunk(err) == [ok |-> FALSE, chunk |-> [choices |-> << >>], err |-> err]
StreamItems == {OkChunk(c) : c \in ChatChunks} \cup {ErrChunk(StreamInterrupted)}

RECURSIVE SeqsUpTo(_, _)
SeqsUpTo(S, n) ==
  IF n = 0 THEN {<< >>}
  ELSE SeqsUpTo(S, n - 1) \cup {Append(q, x) : q \in {t \in SeqsUpTo(S, n - 1) : Len(t) = n - 1}, x \in S}

Streams == SeqsUpTo(StreamItems, MaxStream)

is_finish_stop(reason) == reason = Some(FINISH_REASON_STOP)

\* Mutant: every element of choices is folded, not the first alone.
ChoicesInspectedAll(chunk) == chunk.choices

\* choices.get(PRIMARY_CHOICE_INDEX): the first element, when there is one.
ChoicesInspected(chunk) ==
  IF Len(chunk.choices) > PRIMARY_CHOICE_INDEX
  THEN << chunk.choices[PRIMARY_CHOICE_INDEX + 1] >>
  ELSE << >>

\* Mutant: Done is forwarded before the Text of the same chunk.
ChoiceCallsDoneFirst(choice) ==
  (IF is_finish_stop(choice.finish_reason) THEN << Done >> ELSE << >>)
    \o (IF choice.content # Absent THEN << Text(choice.content[1]) >> ELSE << >>)

\* The callback invocations one choice causes: Text for its content, then Done
\* for finish_reason "stop".
ChoiceCalls(choice) ==
  (IF choice.content # Absent THEN << Text(choice.content[1]) >> ELSE << >>)
    \o (IF is_finish_stop(choice.finish_reason) THEN << Done >> ELSE << >>)

ChoiceText(choice) == IF choice.content # Absent THEN choice.content[1] ELSE << >>

RECURSIVE FoldChoices(_, _, _)
FoldChoices(choices, content, calls) ==
  IF choices = << >> THEN [content |-> content, calls |-> calls]
  ELSE FoldChoices(Tail(choices), content \o ChoiceText(Head(choices)),
                   calls \o ChoiceCalls(Head(choices)))

\* The while loop of with_callback over the items left, with the content
\* accumulated and the callback invocations made so far: `result?` returns the
\* first error; the end of the stream returns the content.
\* Mutant: the error comes with the text accumulated so far.
ReturnErrorWithText(items, content, calls) ==
  [ok |-> FALSE, content |-> content, err |-> Head(items).err, calls |-> calls,
   left |-> Tail(items)]

\* `result?` on an Err item: the function returns the error; content is dropped
\* and the items after the error stay in the stream, unread.
ReturnError(items, content, calls) ==
  [ok |-> FALSE, content |-> << >>, err |-> Head(items).err, calls |-> calls,
   left |-> Tail(items)]

RECURSIVE with_callback_loop(_, _, _)
with_callback_loop(items, content, calls) ==
  IF items = << >>
  THEN [ok |-> TRUE, content |-> content, err |-> NoError, calls |-> calls, left |-> << >>]
  ELSE IF ~Head(items).ok
  THEN ReturnError(items, content, calls)
  ELSE LET f == FoldChoices(ChoicesInspected(Head(items).chunk), content, calls)
       IN with_callback_loop(Tail(items), f.content, f.calls)

with_callback(items) == with_callback_loop(items, << >>, << >>)

\* accumulate: with_callback with a callback that does nothing.
accumulate(items) == [with_callback(items) EXCEPT !.calls = << >>]

NoCall == [fn |-> "none", result |-> NoRet]

HandlerIdle ==
  /\ stream = << >>
  /\ sendres = [ok |-> TRUE, err |-> NoError]
  /\ dry_run = FALSE
  /\ on_chunk = << >>
  /\ hout = NoCall

SWithCallback ==
  /\ hout.fn = "none"
  /\ LET r == with_callback(stream)
     IN /\ hout' = [fn |-> "with_callback",
                    result |-> [ok |-> r.ok, content |-> r.content, err |-> r.err,
                                read |-> Len(stream) - Len(r.left)]]
        /\ on_chunk' = r.calls
  /\ UNCHANGED << stream, sendres, dry_run >>
  /\ UNCHANGED << logVars, execVars, clientVars, parseVars, readVars, runIdVars, settingsVars, laterVars >>

SAccumulate ==
  /\ hout.fn = "none"
  /\ LET r == accumulate(stream)
     IN /\ hout' = [fn |-> "accumulate",
                    result |-> [ok |-> r.ok, content |-> r.content, err |-> r.err,
                                read |-> Len(stream) - Len(r.left)]]
        /\ on_chunk' = r.calls
  /\ UNCHANGED << stream, sendres, dry_run >>
  /\ UNCHANGED << logVars, execVars, clientVars, parseVars, readVars, runIdVars, settingsVars, laterVars >>

\* --------------------------------------------- execute, execute_streaming
\* The response as the parser's extractors see the accumulated text.
RECURSIVE CountOf(_, _)
CountOf(text, b) ==
  IF text = << >> THEN 0
  ELSE (IF Head(text) = b THEN 1 ELSE 0) + CountOf(Tail(text), b)

ResponseOf(text) ==
  [diffs |-> CountOf(text, "d"), srs |-> CountOf(text, "s"),
   json |-> [k |-> "none", ids |-> << >>]]

\* What chat_completion_stream returns: the stream, or the error of
\* send_with_retry.
SendResults ==
  {[ok |-> TRUE, err |-> NoError], [ok |-> FALSE, err |-> RequestTimeout]}

\* Mutant: the dry run forwards a Text before Done.
DryRunChunksWithText == << Text(<< >>), Done >>

\* The callback invocations of a dry run of the streaming variant.
DryRunChunks == << Done >>

\* chat_completion_stream calls a dry run makes.
DryRunRequests == 0

\* The part of both variants after the dry-run check: h is what the stream
\* handler returned for the stream of the response.
AfterRequest(send, h, run_id) ==
  IF ~send.ok THEN [ret |-> ErrResult(send.err.kind, "upstream"), calls |-> << >>]
  ELSE IF ~h.ok THEN [ret |-> ErrResult(h.err.kind, "upstream"), calls |-> h.calls]
  ELSE [ret |-> parse(ResponseOf(h.content), run_id), calls |-> h.calls]

execute_internal(dry, send, items, run_id) ==
  IF dry
  THEN [ret |-> OkResult(<< >>), calls |-> << >>, requests |-> DryRunRequests]
  ELSE [ret |-> AfterRequest(send, accumulate(items), run_id).ret,
        calls |-> AfterRequest(send, accumulate(items), run_id).calls,
        requests |-> 1]

execute_streaming_internal(dry, send, items, run_id) ==
  IF dry
  THEN [ret |-> OkResult(<< >>), calls |-> DryRunChunks, requests |-> DryRunRequests]
  ELSE [ret |-> AfterRequest(send, with_callback(items), run_id).ret,
        calls |-> AfterRequest(send, with_callback(items), run_id).calls,
        requests |-> 1]

\* The effect of one call of the Executor trait that returned r under run_id.
Returns(fn, r, run_id, now) ==
  /\ clock' = now
  /\ xrun' = run_id
  /\ ret' = r.ret
  /\ httpCalls' = httpCalls + r.requests
  /\ on_chunk' = r.calls
  /\ hout' = [fn |-> fn, result |-> r.ret]
  /\ UNCHANGED << pc, xw, xlog, nruns >>
  /\ UNCHANGED << stream, sendres, dry_run >>
  /\ UNCHANGED << logVars, clientVars, parseVars, readVars, runIdVars, settingsVars, laterVars >>

AExecute ==
  /\ hout.fn = "none"
  /\ \E now \in clock .. MaxClock :
       Returns("execute",
               execute_internal(dry_run, sendres, stream, generate_run_id(now)),
               generate_run_id(now), now)

AExecuteStreaming ==
  /\ hout.fn = "none"
  /\ \E now \in clock .. MaxClock :
       Returns("execute_streaming",
               execute_streaming_internal(dry_run, sendres, stream, generate_run_id(now)),
               generate_run_id(now), now)

\* ------------------------------------------------------ run_id validation
\* A run_id is a str: a sequence of characters. "e" stands for a character of
\* two bytes, the others have one.
IdChars == {"a", ".", "/", "\\", " ", "e"}
Utf8Len(ch) == IF ch = "e" THEN 2 ELSE 1

\* str::len: the length in bytes, summed over the characters lo .. hi.
RECURSIVE BytesBetween(_, _, _)
BytesBetween(str, lo, hi) ==
  IF lo > hi THEN 0
  ELSE IF lo = hi THEN Utf8Len(str[lo])
  ELSE BytesBetween(str, lo, (lo + hi) \div 2)
         + BytesBetween(str, ((lo + hi) \div 2) + 1, hi)

StrLen(str) == BytesBetween(str, 1, Len(str))

\* str::trim().is_empty(): nothing but whitespace.
TrimIsEmpty(str) == \A i \in DOMAIN str : str[i] = " "

\* str::contains for a character and for a two-character pattern.
ContainsChar(str, ch) == \E i \in DOMAIN str : str[i] = ch
ContainsPair(str, c1, c2) ==
  \E i \in DOMAIN str : i < Len(str) /\ str[i] = c1 /\ str[i + 1] = c2

RUN_ID_MAX_LEN == 255

\* ResponseParser::validate_run_id: TRUE for Ok(()).
ParserValidateRunId(run_id) ==
  IF TrimIsEmpty(run_id) THEN FALSE
  ELSE IF ContainsChar(run_id, "/") \/ ContainsChar(run_id, "\\")
          \/ ContainsPair(run_id, ".", ".") THEN FALSE
  ELSE IF StrLen(run_id) > RUN_ID_MAX_LEN THEN FALSE
  ELSE TRUE

\* Mutant: the length is counted in characters.
PathValidateRunIdByChars(run_id) ==
  IF TrimIsEmpty(run_id) THEN FALSE
  ELSE IF ContainsChar(run_id, "/") \/ ContainsChar(run_id, "\\")
          \/ ContainsPair(run_id, ".", ".") THEN FALSE
  ELSE IF Len(run_id) > RUN_ID_MAX_LEN THEN FALSE
  ELSE TRUE

\* EventLogPath::validate_run_id: TRUE for Ok(()).
PathValidateRunId(run_id) ==
  IF TrimIsEmpty(run_id) THEN FALSE
  ELSE IF ContainsChar(run_id, "/") \/ ContainsChar(run_id, "\\")
          \/ ContainsPair(run_id, ".", ".") THEN FALSE
  ELSE IF StrLen(run_id) > RUN_ID_MAX_LEN THEN FALSE
  ELSE TRUE

\* EventLogPath::for_run: the path of the log, or InvalidRunId.
for_run(run_id) ==
  IF ~PathValidateRunId(run_id) THEN [ok |-> FALSE, err |-> "InvalidRunId", name |-> << >>]
  ELSE [ok |-> TRUE, err |-> "none", name |-> run_id \o << ".jsonl" >>]

\* The first statement of ResponseParser::parse, `self.validate_run_id(run_id)?`:
\* InvalidRunId is returned there; otherwise the response is examined.
parse_entry(run_id) ==
  IF ~ParserValidateRunId(run_id) THEN [ok |-> FALSE, err |-> "InvalidRunId", name |-> << >>]
  ELSE [ok |-> TRUE, err |-> "none", name |-> << >>]

\* n times the character "a".
Fill(n) == [i \in 1 .. n |-> "a"]

\* The lengths of the run of "a" that ends a run_id: around the limit.
FillLens == {0, RUN_ID_MAX_LEN - 2, RUN_ID_MAX_LEN - 1, RUN_ID_MAX_LEN}

\* The run_ids handed in: any short text, followed by a run of "a".
RunIdTexts == {h \o Fill(n) : h \in SeqsUpTo(IdChars, MaxIdHead), n \in FillLens}

NoRunIdCall == [fn |-> "none", ok |-> FALSE, err |-> "none", name |-> << >>]

RunIdIdle == rid = << >> /\ rout = NoRunIdCall

VParse ==
  /\ rout.fn = "none"
  /\ rout' = [fn |-> "parse", ok |-> parse_entry(rid).ok, err |-> parse_entry(rid).err,
              name |-> parse_entry(rid).name]
  /\ UNCHANGED rid
  /\ UNCHANGED << logVars, execVars, clientVars, parseVars, readVars, handlerVars, settingsVars, laterVars >>

VForRun ==
  /\ rout.fn = "none"
  /\ rout' = [fn |-> "for_run", ok |-> for_run(rid).ok, err |-> for_run(rid).err,
              name |-> for_run(rid).name]
  /\ UNCHANGED rid
  /\ UNCHANGED << logVars, execVars, clientVars, parseVars, readVars, handlerVars, settingsVars, laterVars >>

\* --------------------------------------------------------------- settings
\* A path pattern is a str: "a" stands for the ASCII letters, "^" for the
\* control characters, the other characters for themselves.
PatChars == {"a", ".", "/", "*", ":", "\\", "^"}
Patterns == SeqsUpTo(PatChars, MaxPatLen)

is_ascii_alphabetic(ch) == ch = "a"
is_control(ch) == ch = "^"

\* str::starts_with
StartsWith(str, prefix) ==
  Len(str) >= Len(prefix) /\ SubSeq(str, 1, Len(prefix)) = prefix

\* Mutant: "/**/" is not excepted from the absolute paths.
validate_path_pattern_no_glob_root(path) ==
  IF ContainsPair(path, ".", ".") THEN FALSE
  ELSE IF StartsWith(path, << "/" >>) THEN FALSE
  ELSE IF Len(path) >= 2 /\ is_ascii_alphabetic(path[1]) /\ path[2] = ":" THEN FALSE
  ELSE IF StartsWith(path, << "\\", "\\" >>) THEN FALSE
  ELSE IF \E i \in DOMAIN path : is_control(path[i]) THEN FALSE
  ELSE TRUE

\* validate_path_pattern: TRUE for Ok(()), FALSE for InvalidPathPattern.
validate_path_pattern(path) ==
  IF ContainsPair(path, ".", ".") THEN FALSE
  ELSE IF StartsWith(path, << "/" >>) /\ ~StartsWith(path, << "/", "*", "*", "/" >>)
  THEN FALSE
  ELSE IF Len(path) >= 2 /\ is_ascii_alphabetic(path[1]) /\ path[2] = ":" THEN FALSE
  ELSE IF StartsWith(path, << "\\", "\\" >>) THEN FALSE
  ELSE IF \E i \in DOMAIN path : is_control(path[i]) THEN FALSE
  ELSE TRUE

default_schema_version == << "1", ".", "0" >>
default_max_batch_cu == 40
default_max_batch_steps == 8

\* AutopilotConfig, by the two limits validate reads.
AutopilotConfig(cu, steps) == [max_batch_cu |-> cu, max_batch_steps |-> steps]

\* NexusSettings::default().deny_paths: ".env*", "**/.ssh/**", ... with one
\* letter for each name.
DefaultDenyPaths ==
  << << ".", "a", "*" >>, << "*", "*", "/", ".", "a", "/", "*", "*" >>,
     << "*", "*", "/", ".", "a" >> >>

\* NexusSettings, by the fields validate reads.
NexusSettings(version, deny, allow, autopilot) ==
  [schema_version |-> version, deny_paths |-> deny, allow_paths_write |-> allow,
   autopilot |-> autopilot]

ValidationOk == [ok |-> TRUE, err |-> "none"]
ValidationErr(e) == [ok |-> FALSE, err |-> e]

\* NexusSettings::validate: the first failure, in the order of the checks.
validate(st) ==
  IF st.schema_version # default_schema_version THEN ValidationErr("InvalidSchemaVersion")
  ELSE IF \E i \in DOMAIN st.deny_paths : ~validate_path_pattern(st.deny_paths[i])
  THEN ValidationErr("InvalidPathPattern")
  ELSE IF \E i \in DOMAIN st.allow_paths_write :
            ~validate_path_pattern(st.allow_paths_write[i])
  THEN ValidationErr("InvalidPathPattern")
  ELSE IF st.autopilot # Absent /\ st.autopilot[1].max_batch_cu < 1
  THEN ValidationErr("InvalidMaxBatchCu")
  ELSE IF st.autopilot # Absent /\ st.autopilot[1].max_batch_steps < 1
  THEN ValidationErr("InvalidMaxBatchSteps")
  ELSE ValidationOk

\* A pattern every check accepts, for the lists a drawn pattern is put into.
PlainPattern == << ".", "a", "*" >>
OtherVersion == << "2", ".", "0" >>

\* The settings values a pattern p is validated in: alone in deny_paths, last
\* in allow_paths_write, under another schema version, before a bad autopilot.
SettingsContexts == {"deny", "allow", "version", "autopilot"}
SettingsIn(p, c) ==
  IF c = "deny" THEN NexusSettings(default_schema_version, << p >>, << >>, Absent)
  ELSE IF c = "allow"
  THEN NexusSettings(default_schema_version, << PlainPattern >>, << PlainPattern, p >>, Absent)
  ELSE IF c = "version" THEN NexusSettings(OtherVersion, << p >>, << >>, Absent)
  ELSE NexusSettings(default_schema_version, << p >>, << >>, Some(AutopilotConfig(0, 8)))

SettingsValues == {SettingsIn(p, c) : p \in Patterns, c \in SettingsContexts}

\* What a settings file holds as JSON: every field may be missing.
JsonVersions == {Absent, Some(default_schema_version), Some(OtherVersion)}
JsonDenyPaths == {Absent, Some(<< >>), Some(<< PlainPattern >>), Some(<< << ".", "." >> >>)}
JsonAllowPaths == {Absent, Some(<< PlainPattern >>), Some(<< << "/", "a" >> >>)}
JsonAutopilots ==
  {Absent, Some([max_batch_cu |-> Absent, max_batch_steps |-> Absent]),
   Some([max_batch_cu |-> Some(0), max_batch_steps |-> Some(8)]),
   Some([max_batch_cu |-> Some(1), max_batch_steps |-> Some(0)])}

JsonDocs ==
  {[schema_version |-> v, deny_paths |-> d, allow_paths_write |-> a, autopilot |-> ap] :
     v \in JsonVersions, d \in JsonDenyPaths, a \in JsonAllowPaths, ap \in JsonAutopilots}

NoDoc == [schema_version |-> Absent, deny_paths |-> Absent, allow_paths_write |-> Absent,
          autopilot |-> Absent]

\* What is at config_path: nothing, something read_to_string fails on, or a
\* file that is empty, whitespace only, not JSON of the schema, or a document.
ConfigFiles ==
  {[k |-> kind, doc |-> NoDoc] : kind \in {"missing", "unreadable", "empty", "blank", "malformed"}}
    \cup {[k |-> "json", doc |-> d] : d \in JsonDocs}

OrDefault(opt, default) == IF opt = Absent THEN default ELSE opt[1]

\* serde_json::from_str::<NexusSettings>: #[serde(default)] fills what is missing.
from_str(doc) ==
  NexusSettings(OrDefault(doc.schema_version, default_schema_version),
                OrDefault(doc.deny_paths, << >>),
                OrDefault(doc.allow_paths_write, << >>),
                IF doc.autopilot = Absent THEN Absent
                ELSE Some(AutopilotConfig(
                       OrDefault(doc.autopilot[1].max_batch_cu, default_max_batch_cu),
                       OrDefault(doc.autopilot[1].max_batch_steps, default_max_batch_steps))))

merge_with_defaults(st) ==
  IF st.deny_paths = << >> THEN [st EXCEPT !.deny_paths = DefaultDenyPaths] ELSE st

NoSettings == NexusSettings(<< >>, << >>, << >>, Absent)

LoadOk(st, path) ==
  [ok |-> TRUE, err |-> "none", io |-> "none", source |-> "none", settings |-> st,
   settings_path |-> path]
LoadErr(e, io, source) ==
  [ok |-> FALSE, err |-> e, io |-> io, source |-> source, settings |-> NoSettings,
   settings_path |-> Absent]

load_from_file(f) ==
  IF f.k \in {"missing", "unreadable"} THEN LoadErr("ConfigLoad", "Other", "none")
  ELSE IF f.k \in {"empty", "blank"} THEN LoadErr("ConfigParse", "none", "none")
  ELSE IF f.k = "malformed" THEN LoadErr("ConfigParse", "none", "none")
  ELSE LET st == merge_with_defaults(from_str(f.doc))
       IN IF ~validate(st).ok THEN LoadErr("ConfigValidation", "none", validate(st).err)
          ELSE LoadOk(st, Absent)

\* Mutant: a missing path falls back to the defaults, as load_settings does.
load_settings_or_default(f) ==
  IF f.k # "missing"
  THEN IF load_from_file(f).ok
       THEN LoadOk(load_from_file(f).settings, Some("config_path"))
       ELSE load_from_file(f)
  ELSE LoadOk(NexusSettings(default_schema_version, DefaultDenyPaths, << >>, Absent), Absent)

load_settings_with_preference(f) ==
  IF f.k # "missing"
  THEN IF load_from_file(f).ok
       THEN LoadOk(load_from_file(f).settings, Some("config_path"))
       ELSE load_from_file(f)
  ELSE LoadErr("ConfigLoad", "NotFound", "none")

load_with_config_path(f) == load_settings_with_preference(f)

NoFile == [k |-> "missing", doc |-> NoDoc]
NoSettingsCall == [fn |-> "none", result |-> LoadErr("none", "none", "none")]

SettingsIdle == settings = NoSettings /\ cfgfile = NoFile /\ cfgout = NoSettingsCall

SValidate ==
  /\ cfgout.fn = "none"
  /\ settings # NoSettings
  /\ cfgout' = [fn |-> "validate",
                result |-> IF validate(settings).ok THEN LoadOk(settings, Absent)
                           ELSE LoadErr("none", "none", validate(settings).err)]
  /\ UNCHANGED << settings, cfgfile >>
  /\ UNCHANGED << logVars, execVars, clientVars, parseVars, readVars, handlerVars,
                  runIdVars, laterVars >>

SLoadWithConfigPath ==
  /\ cfgout.fn = "none"
  /\ settings = NoSettings
  /\ cfgout' = [fn |-> "load_with_config_path", result |-> load_with_config_path(cfgfile)]
  /\ UNCHANGED << settings, cfgfile >>
  /\ UNCHANGED << logVars, execVars, clientVars, parseVars, readVars, handlerVars,
                  runIdVars, laterVars >>

\* ------------------------------------------------- the stream of SSE events
\* Bytes of the response body, by what they are to the parser: "n" a newline,
\* "c1", "c2" a line `data: <JSON of a chunk>`, "d" a line `data: [DONE]`,
\* "x" a line `data: <not JSON>`, "k" a line without the data: prefix, "u" bytes
\* that are not UTF-8. SSE_DELIMITER is two "n" in a row.
SSE_DELIMITER == << "n", "n" >>
ChunkLines == {"c1", "c2"}
DataLines == ChunkLines \cup {"d", "x"}

\* The chunk a data line decodes to.
ChunkOf(tok) ==
  IF tok = "c1" THEN [choices |-> << ChunkChoice(Some(<< "d" >>), Absent) >>]
  ELSE [choices |-> << ChunkChoice(Some(<< "s" >>), Some(FINISH_REASON_STOP)) >>]

\* What one read of bytes_stream gives.
Reads ==
  {<< "c1", "n", "n" >>, << "c2", "n", "n" >>, << "d", "n", "n" >>, << "x", "n", "n" >>,
   << "k", "n", "n" >>, << "u", "n", "n" >>, << "c1" >>, << "n" >>,
   << "c1", "n", "n", "d", "n", "n", "c2", "n", "n" >>,
   << "c1", "n", "n", "x", "n", "n" >>}

\* How the body ends: closed by the server, a connection error, a timeout.
BodyEnds == {"eof", "error", "timeout"}

Bodies == {[reads |-> r, end |-> e] : r \in SeqsUpTo(Reads, MaxReads), e \in BodyEnds}

\* find_delimiter: the index of the first window equal to the delimiter, 0 for
\* None; indexes count from 1 here.
find_delimiter(buffer) ==
  IF \E i \in 1 .. Len(buffer) - 1 : SubSeq(buffer, i, i + 1) = SSE_DELIMITER
  THEN CHOOSE i \in 1 .. Len(buffer) - 1 :
         /\ SubSeq(buffer, i, i + 1) = SSE_DELIMITER
         /\ \A j \in 1 .. i - 1 : SubSeq(buffer, j, j + 1) # SSE_DELIMITER
  ELSE 0

\* str::lines on the bytes of one event.
RECURSIVE EventLines(_, _)
EventLines(bytes, cur) ==
  IF bytes = << >> THEN (IF cur = << >> THEN << >> ELSE << cur >>)
  ELSE IF Head(bytes) = "n" THEN << cur >> \o EventLines(Tail(bytes), << >>)
  ELSE EventLines(Tail(bytes), Append(cur, Head(bytes)))

\* The lines that carry the data: prefix.
data_lines(event) ==
  SelectSeq(EventLines(event, << >>), LAMBDA l : l # << >> /\ Head(l) \in DataLines)

\* Mutant: a [DONE] event is skipped like an event without data.
parse_event_ignoring_done(event) ==
  IF data_lines(event) = << >> THEN [k |-> "empty", tok |-> ""]
  ELSE IF data_lines(event) = << << "d" >> >> THEN [k |-> "empty", tok |-> ""]
  ELSE IF Len(data_lines(event)) = 1 /\ Len(data_lines(event)[1]) = 1
          /\ data_lines(event)[1][1] \in ChunkLines
  THEN [k |-> "chunk", tok |-> data_lines(event)[1][1]]
  ELSE [k |-> "err", tok |-> ""]

\* parse_event: Empty without data lines, Done when the joined data is exactly
\* [DONE], the chunk when it is the JSON of one, StreamInterrupted otherwise.
parse_event(event) ==
  IF data_lines(event) = << >> THEN [k |-> "empty", tok |-> ""]
  ELSE IF data_lines(event) = << << "d" >> >> THEN [k |-> "done", tok |-> ""]
  ELSE IF Len(data_lines(event)) = 1 /\ Len(data_lines(event)[1]) = 1
          /\ data_lines(event)[1][1] \in ChunkLines
  THEN [k |-> "chunk", tok |-> data_lines(event)[1][1]]
  ELSE [k |-> "err", tok |-> ""]

RECURSIVE parse_sse_events(_, _)

\* Mutant: the loop goes on after [DONE].
AfterDoneParsingOn(rest, pending) == [parse_sse_events(rest, pending) EXCEPT !.done = TRUE]

\* SseEvent::Done: the loop breaks, the bytes after the event stay in the buffer.
AfterDone(rest, pending) ==
  [ok |-> TRUE, done |-> TRUE, buffer |-> rest, pending |-> pending]

\* parse_sse_events: the events the buffer holds are drained one by one; the
\* loop stops at [DONE], at an error, or when no delimiter is left.
parse_sse_events(buffer, pending) ==
  LET i == find_delimiter(buffer)
      event_bytes == SubSeq(buffer, 1, i - 1)
      rest == SubSeq(buffer, i + Len(SSE_DELIMITER), Len(buffer))
  IN IF i = 0 THEN [ok |-> TRUE, done |-> FALSE, buffer |-> buffer, pending |-> pending]
     ELSE IF event_bytes = << >> THEN parse_sse_events(rest, pending)
     ELSE IF \E j \in DOMAIN event_bytes : event_bytes[j] = "u"
     THEN [ok |-> FALSE, done |-> FALSE, buffer |-> rest, pending |-> pending]
     ELSE IF parse_event(event_bytes).k = "err"
     THEN [ok |-> FALSE, done |-> FALSE, buffer |-> rest, pending |-> pending]
     ELSE IF parse_event(event_bytes).k = "chunk"
     THEN parse_sse_events(rest, Append(pending, ChunkOf(parse_event(event_bytes).tok)))
     ELSE IF parse_event(event_bytes).k = "done"
     THEN AfterDone(rest, pending)
     ELSE parse_sse_events(rest, pending)

consume_bytes(st, bytes) == parse_sse_events(st.buffer \o bytes, st.pending)

\* map_stream_error
map_stream_error(end) == IF end = "timeout" THEN RequestTimeout ELSE StreamInterrupted

NoneItem == [ok |-> FALSE, chunk |-> [choices |-> << >>], err |-> NoError]

\* Mutant: the end of the body is the end of the stream, whatever the buffer holds.
AtEndOfBodyLenient(buffer) == NoneItem

\* The body ended: StreamInterrupted when the buffer is not empty, else None.
AtEndOfBody(buffer) == IF buffer # << >> THEN ErrChunk(StreamInterrupted) ELSE NoneItem

\* One call of the closure of unfold: the item it returns (NoneItem for None),
\* the state it leaves and the body left. h records what the call met.
RECURSIVE poll_next(_, _, _)
poll_next(st, b, h) ==
  IF st.pending # << >>
  THEN [item |-> OkChunk(Head(st.pending)), st |-> [st EXCEPT !.pending = Tail(st.pending)],
        body |-> b, hist |-> h]
  ELSE IF st.done THEN [item |-> NoneItem, st |-> st, body |-> b, hist |-> h]
  ELSE IF b.reads # << >>
  THEN LET r == consume_bytes(st, Head(b.reads))
           nb == [b EXCEPT !.reads = Tail(b.reads)]
           nh == [h EXCEPT !.parsed = h.parsed \o SubSeq(r.pending, Len(st.pending) + 1,
                                                          Len(r.pending)),
                           !.sentinel = r.done,
                           !.bytes = h.bytes \o Head(b.reads)]
       IN IF r.ok
          THEN poll_next([buffer |-> r.buffer, pending |-> r.pending, done |-> r.done], nb, nh)
          ELSE [item |-> ErrChunk(StreamInterrupted),
                st |-> [buffer |-> r.buffer, pending |-> r.pending, done |-> TRUE],
                body |-> nb, hist |-> nh]
  ELSE IF b.end # "eof"
  THEN [item |-> ErrChunk(map_stream_error(b.end)), st |-> [st EXCEPT !.done = TRUE],
        body |-> b, hist |-> h]
  ELSE [item |-> AtEndOfBody(st.buffer),
        st |-> [st EXCEPT !.done = (AtEndOfBody(st.buffer) # NoneItem)],
        body |-> b, hist |-> [h EXCEPT !.eof = TRUE]]

NoBody == [reads |-> << >>, end |-> "eof"]
NewStreamState == [buffer |-> << >>, pending |-> << >>, done |-> FALSE]
NoHistory ==
  [parsed |-> << >>, sentinel |-> FALSE, eof |-> FALSE, ended |-> FALSE, bytes |-> << >>]

SseIdle ==
  /\ body = NoBody
  /\ sst = NewStreamState
  /\ syield = << >>
  /\ shist = [NoHistory EXCEPT !.ended = TRUE]

\* The consumer polls the stream until it returns None.
SsePoll ==
  /\ ~shist.ended
  /\ LET r == poll_next(sst, body, shist)
     IN /\ sst' = r.st
        /\ body' = r.body
        /\ syield' = IF r.item = NoneItem THEN syield ELSE Append(syield, r.item)
        /\ shist' = [r.hist EXCEPT !.ended = (r.item = NoneItem)]
  /\ UNCHANGED << logVars, execVars, clientVars, parseVars, readVars, handlerVars,
                  runIdVars, settingsVars, roundTripVars, tailVars >>

\* ------------------------------------------- events through the log file
\* A string is a sequence of characters: "a" a plain one, "q" a double quote,
\* "b" a backslash, "n" a newline. JSON values as serde_json::Value builds them.
JStr(s) == [k |-> "str", s |-> s]
JNum(n) == [k |-> "num", n |-> n]
JBool(b) == [k |-> "bool", b |-> b]
JArr(items) == [k |-> "arr", items |-> items]
JObj(fields) == [k |-> "obj", fields |-> fields]

\* Actor and the actors the helpers attach.
Actor(agent, provider, model) == [agent |-> agent, provider |-> provider, model |-> model]
tool_actor == Actor(Some("Tool"), Absent, Absent)
default_executor_actor ==
  Actor(Some("Executor"), Some(<< "o", "p", "e", "n", "a", "i" >>), Some(<< "c", "o", "d", "e", "x" >>))

\* RunEvent::new, with_actor, with_payload; now is what Utc::now() returned. An
\* event type is the string of its two words and the dot between them.
NEXUS_V == << "n", "e", "x", "u", "s", "/", "1" >>
RunEventNew(run_id, event_type, now) ==
  [v |-> NEXUS_V, run_id |-> run_id, workflow_id |-> Absent, node_id |-> Absent,
   event_type |-> event_type, time |-> now, trace |-> Absent, actor |-> Absent,
   payload |-> Absent, payload_ref |-> Absent]
with_actor(event, actor) == [event EXCEPT !.actor = Some(actor)]
with_payload(event, payload) == [event EXCEPT !.payload = Some(payload)]

\* The helper factories.
run_started(run_id, task, now) ==
  with_payload(with_actor(RunEventNew(run_id, << "run", ".", "started" >>, now), tool_actor),
               JObj("task" :> JStr(task)))

run_completed(run_id, status, actions_applied, now) ==
  with_payload(with_actor(RunEventNew(run_id, << "run", ".", "completed" >>, now), tool_actor),
               JObj("status" :> JStr(status) @@ "actions_applied" :> JNum(actions_applied)))

helpers_action_proposed(run_id, action_id, kind, summary, actor, now) ==
  with_payload(with_actor(RunEventNew(run_id, << "action", ".", "proposed" >>, now),
                          IF actor = Absent THEN default_executor_actor ELSE actor[1]),
               JObj("action_id" :> JStr(action_id) @@ "kind" :> JStr(kind)
                      @@ "summary" :> JStr(summary)))

permission_granted(run_id, action_id, scope, now) ==
  with_payload(with_actor(RunEventNew(run_id, << "permission", ".", "granted" >>, now), tool_actor),
               JObj("action_id" :> JStr(action_id) @@ "scope" :> JStr(scope)))

permission_denied(run_id, action_id, reason, now) ==
  with_payload(with_actor(RunEventNew(run_id, << "permission", ".", "denied" >>, now), tool_actor),
               JObj("action_id" :> JStr(action_id) @@ "reason" :> JStr(reason)))

tool_executed(run_id, action_id, files_modified, now) ==
  with_payload(with_actor(RunEventNew(run_id, << "tool", ".", "executed" >>, now), tool_actor),
               JObj("action_id" :> JStr(action_id) @@ "success" :> JBool(TRUE)
                      @@ "files_modified"
                           :> JArr([i \in DOMAIN files_modified |-> JStr(files_modified[i])])))

tool_failed(run_id, action_id, error, now) ==
  with_payload(with_actor(RunEventNew(run_id, << "tool", ".", "failed" >>, now), tool_actor),
               JObj("action_id" :> JStr(action_id) @@ "success" :> JBool(FALSE)
                      @@ "error" :> JStr(error)))

helpers_executor_started(run_id, task, file_count, model, now) ==
  with_payload(with_actor(RunEventNew(run_id, << "executor", ".", "started" >>, now),
                          Actor(Some("Executor"), Some(<< "o", "p", "e", "n", "a", "i" >>),
                                Some(model))),
               JObj("task" :> JStr(task) @@ "file_count" :> JNum(file_count)
                      @@ "model" :> JStr(model)))

executor_streaming(run_id, chunk_size, total_chars, now) ==
  with_payload(with_actor(RunEventNew(run_id, << "executor", ".", "streaming" >>, now),
                          default_executor_actor),
               JObj("chunk_size" :> JNum(chunk_size) @@ "total_chars" :> JNum(total_chars)))

helpers_executor_completed(run_id, action_count, duration_ms, now) ==
  with_payload(with_actor(RunEventNew(run_id, << "executor", ".", "completed" >>, now),
                          default_executor_actor),
               JObj("action_count" :> JNum(action_count) @@ "duration_ms" :> JNum(duration_ms)
                      @@ "success" :> JBool(TRUE)))

helpers_executor_failed(run_id, error, status_code, now) ==
  with_payload(with_actor(RunEventNew(run_id, << "executor", ".", "failed" >>, now),
                          default_executor_actor),
               JObj(IF status_code = Absent
                    THEN "error" :> JStr(error) @@ "success" :> JBool(FALSE)
                    ELSE "error" :> JStr(error) @@ "success" :> JBool(FALSE)
                           @@ "status_code" :> JNum(status_code[1])))

\* The arguments the factories are called with: strings with and without
\* characters JSON escapes, numbers, and times with and without a fraction.
HelperArgs ==
  {[str |-> << "a" >>, num |-> 0, now |-> [secs |-> 1, nanos |-> 0], opt |-> FALSE],
   [str |-> << "q", "n", "b" >>, num |-> 2, now |-> [secs |-> 2, nanos |-> 123456789],
    opt |-> TRUE],
   [str |-> << >>, num |-> 1, now |-> [secs |-> 1, nanos |-> 120000000], opt |-> TRUE]}

HelperEvents ==
  UNION {
    {run_started(a.str, a.str, a.now),
     run_completed(a.str, a.str, a.num, a.now),
     helpers_action_proposed(a.str, a.str, a.str, a.str,
                             IF a.opt THEN Some(Actor(Absent, Absent, Some(a.str))) ELSE Absent,
                             a.now),
     permission_granted(a.str, a.str, a.str, a.now),
     permission_denied(a.str, a.str, a.str, a.now),
     tool_executed(a.str, a.str, IF a.opt THEN << a.str, << "a" >> >> ELSE << >>, a.now),
     tool_failed(a.str, a.str, a.str, a.now),
     helpers_executor_started(a.str, a.str, a.num, a.str, a.now),
     executor_streaming(a.str, a.num, a.num, a.now),
     helpers_executor_completed(a.str, a.num, a.num, a.now),
     helpers_executor_failed(a.str, a.str, IF a.opt THEN Some(a.num) ELSE Absent, a.now)}
    : a \in HelperArgs}

\* serde_json writes a string: quote, backslash and newline are escaped.
\* Mutant: the newline is written as it is.
escape_char_raw_newline(c) ==
  IF c = "q" THEN "\\q" ELSE IF c = "b" THEN "\\b" ELSE c

escape_char(c) ==
  IF c = "q" THEN "\\q" ELSE IF c = "b" THEN "\\b" ELSE IF c = "n" THEN "\\n" ELSE c

unescape_char(c) ==
  IF c = "\\q" THEN "q" ELSE IF c = "\\b" THEN "b" ELSE IF c = "\\n" THEN "n" ELSE c

WriteStr(s) == [k |-> "str", s |-> [i \in DOMAIN s |-> escape_char(s[i])]]
ReadStr(w) == [i \in DOMAIN w.s |-> unescape_char(w.s[i])]

\* chrono writes DateTime<Utc> as RFC 3339 with as many digits of the fraction
\* as the nanoseconds need (none, 3, 6 or 9), and reads any number of them.
Pow10(d) == IF d = 0 THEN 1 ELSE IF d = 3 THEN 1000 ELSE IF d = 6 THEN 1000000 ELSE 1000000000
FractionDigits(nanos) ==
  IF nanos = 0 THEN 0
  ELSE IF nanos % 1000000 = 0 THEN 3
  ELSE IF nanos % 1000 = 0 THEN 6
  ELSE 9
WriteTime(t) ==
  [k |-> "time", secs |-> t.secs, digits |-> FractionDigits(t.nanos),
   frac |-> t.nanos \div Pow10(9 - FractionDigits(t.nanos))]
ReadTime(w) == [secs |-> w.secs, nanos |-> w.frac * Pow10(9 - w.digits)]

\* AgentRole with rename_all = "snake_case".
WriteRole(role) ==
  IF role = "Tool" THEN << "t", "o", "o", "l" >>
  ELSE << "e", "x", "e", "c", "u", "t", "o", "r" >>
ReadRole(text) == IF text = << "t", "o", "o", "l" >> THEN "Tool" ELSE "Executor"

\* skip_serializing_if = "Option::is_none": no key for None.
OptField(key, opt, wire) ==
  IF opt = Absent THEN << >> ELSE key :> wire

\* The JSON text of a Value, and the Value of a JSON text.
RECURSIVE WriteValue(_)
WriteValue(v) ==
  IF v.k = "str" THEN WriteStr(v.s)
  ELSE IF v.k = "arr" THEN [k |-> "arr", items |-> [i \in DOMAIN v.items |-> WriteValue(v.items[i])]]
  ELSE IF v.k = "obj"
  THEN [k |-> "obj", fields |-> [key \in DOMAIN v.fields |-> WriteValue(v.fields[key])]]
  ELSE v

RECURSIVE ReadValue(_)
ReadValue(w) ==
  IF w.k = "str" THEN JStr(ReadStr(w))
  ELSE IF w.k = "arr" THEN JArr([i \in DOMAIN w.items |-> ReadValue(w.items[i])])
  ELSE IF w.k = "obj" THEN JObj([key \in DOMAIN w.fields |-> ReadValue(w.fields[key])])
  ELSE w

\* The text holds a newline outside every escape.
RECURSIVE HasRawNewline(_)
HasRawNewline(w) ==
  IF w.k = "str" THEN \E i \in DOMAIN w.s : w.s[i] = "n"
  ELSE IF w.k = "arr" THEN \E i \in DOMAIN w.items : HasRawNewline(w.items[i])
  ELSE IF w.k = "obj" THEN \E key \in DOMAIN w.fields : HasRawNewline(w.fields[key])
  ELSE FALSE

\* Serialize for Actor and RunEvent: the object written for the value.
WriteActor(actor) ==
  [k |-> "obj",
   fields |-> OptField("agent", actor.agent,
                       IF actor.agent = Absent THEN WriteStr(<< >>)
                       ELSE WriteStr(WriteRole(actor.agent[1])))
                @@ OptField("provider", actor.provider,
                            IF actor.provider = Absent THEN WriteStr(<< >>)
                            ELSE WriteStr(actor.provider[1]))
                @@ OptField("model", actor.model,
                            IF actor.model = Absent THEN WriteStr(<< >>)
                            ELSE WriteStr(actor.model[1]))]

to_value(event) ==
  [k |-> "obj",
   fields |-> "v" :> WriteStr(event.v)
                @@ "run_id" :> WriteStr(event.run_id)
                @@ "type" :> WriteStr(event.event_type)
                @@ "time" :> WriteTime(event.time)
                @@ OptField("actor", event.actor,
                            IF event.actor = Absent THEN WriteStr(<< >>)
                            ELSE WriteActor(event.actor[1]))
                @@ OptField("payload", event.payload,
                            IF event.payload = Absent THEN WriteStr(<< >>)
                            ELSE WriteValue(event.payload[1]))]

\* append: the object of the event with event_seq inserted; the newline that
\* follows it ends the line.
append_line(event, event_seq) ==
  [k |-> "obj", fields |-> to_value(event).fields @@ "event_seq" :> JNum(event_seq)]

\* Deserialize for Actor and RunEvent: keys that are no field are ignored.
ReadActor(w) ==
  Actor(IF "agent" \in DOMAIN w.fields THEN Some(ReadRole(ReadStr(w.fields["agent"]))) ELSE Absent,
        IF "provider" \in DOMAIN w.fields THEN Some(ReadStr(w.fields["provider"])) ELSE Absent,
        IF "model" \in DOMAIN w.fields THEN Some(ReadStr(w.fields["model"])) ELSE Absent)

from_line(w) ==
  [v |-> ReadStr(w.fields["v"]),
   run_id |-> ReadStr(w.fields["run_id"]),
   workflow_id |-> Absent,
   node_id |-> Absent,
   event_type |-> ReadStr(w.fields["type"]),
   time |-> ReadTime(w.fields["time"]),
   trace |-> Absent,
   actor |-> IF "actor" \in DOMAIN w.fields THEN Some(ReadActor(w.fields["actor"])) ELSE Absent,
   payload |-> IF "payload" \in DOMAIN w.fields THEN Some(ReadValue(w.fields["payload"]))
               ELSE Absent,
   payload_ref |-> Absent]

\* A new log, one append per event, sync and drop: the lines of the file.
AppendAll(events) == [i \in DOMAIN events |-> append_line(events[i], i)]

\* load_all: read_line cuts the file at every newline, so a line whose text
\* holds one comes back as pieces that do not parse; load_all skips them.
RECURSIVE LoadAll(_)
LoadAll(lines) ==
  IF lines = << >> THEN << >>
  ELSE (IF HasRawNewline(Head(lines)) THEN << >> ELSE << from_line(Head(lines)) >>)
         \o LoadAll(Tail(lines))

NoRoundTrip == [fn |-> "none", lines |-> << >>, loaded |-> << >>]
RoundTripIdle == rtin = << >> /\ rtout = NoRoundTrip

RTAppend ==
  /\ rtout.fn = "none"
  /\ rtout' = [fn |-> "appended", lines |-> AppendAll(rtin), loaded |-> << >>]
  /\ UNCHANGED rtin
  /\ UNCHANGED << logVars, execVars, clientVars, parseVars, readVars, handlerVars,
                  runIdVars, settingsVars, sseVars, tailVars >>

RTLoadAll ==
  /\ rtout.fn = "appended"
  /\ rtout' = [rtout EXCEPT !.fn = "loaded", !.loaded = LoadAll(rtout.lines)]
  /\ UNCHANGED rtin
  /\ UNCHANGED << logVars, execVars, clientVars, parseVars, readVars, handlerVars,
                  runIdVars, settingsVars, sseVars, tailVars >>

\* ------------------------------------------------ files named by a diff
\* Text is a sequence of characters.
DiffWhitespace == {" ", "\t"}
DIFF_OLD == << "-", "-", "-", " " >>
DIFF_NEW == << "+", "+", "+", " " >>
DEV_NULL == << "/", "d", "e", "v", "/", "n", "u", "l", "l" >>
A_PREFIX == << "a", "/" >>
B_PREFIX == << "b", "/" >>

\* What follows the "--- " of a header line.
OldPaths ==
  { << "a", "/", "b", "/", "c" >>, << "a", "/", "x" >>, << "b", "/", "x" >>,
    << "a", "/", "a", "/", "x" >>, << "x" >>, << "a", "/" >>, << >>, DEV_NULL,
    << " ", "a", "/", "x", " " >>, << "a", "/", "x", "\t", "y" >> }

\* What follows the "+++ " of a header line.
NewPaths == { << "b", "/", "b", "/", "c" >>, << "b", "/", "x" >>, DEV_NULL }

DiffLines ==
  {DIFF_OLD \o p : p \in OldPaths} \cup {DIFF_NEW \o p : p \in NewPaths}
    \cup { << "@", "@" >>, << "-", "-", "-", "a", "/", "x" >>,
           << " ", "-", "-", "-", " ", "a", "/", "x" >> }

starts_with(str, prefix) ==
  Len(prefix) <= Len(str) /\ SubSeq(str, 1, Len(prefix)) = prefix

RECURSIVE trim_start(_)
trim_start(str) ==
  IF str # << >> /\ Head(str) \in DiffWhitespace THEN trim_start(Tail(str)) ELSE str

RECURSIVE trim_end(_)
trim_end(str) ==
  IF str # << >> /\ str[Len(str)] \in DiffWhitespace
  THEN trim_end(SubSeq(str, 1, Len(str) - 1))
  ELSE str

trim(str) == trim_end(trim_start(str))

\* The characters up to the first whitespace.
RECURSIVE TakeToken(_)
TakeToken(str) ==
  IF str = << >> \/ Head(str) \in DiffWhitespace
  THEN << >>
  ELSE << Head(str) >> \o TakeToken(Tail(str))

\* split_whitespace().next(): Absent when the text has no token.
split_whitespace_next(str) ==
  LET token == TakeToken(trim_start(str))
  IN  IF token = << >> THEN Absent ELSE Some(token)

\* str::trim_start_matches: every repetition of the pattern at the start goes.
RECURSIVE trim_start_matches(_, _)
trim_start_matches(str, pat) ==
  IF starts_with(str, pat)
  THEN trim_start_matches(SubSeq(str, Len(pat) + 1, Len(str)), pat)
  ELSE str

extract_path_from_diff_line(line) ==
  IF ~(starts_with(line, DIFF_OLD) \/ starts_with(line, DIFF_NEW))
  THEN Absent
  ELSE LET trimmed == trim(SubSeq(line, 5, Len(line)))
           token == split_whitespace_next(trimmed)
       IN  IF token = Absent
           THEN Absent
           ELSE IF token[1] = DEV_NULL
           THEN Absent
           ELSE LET normalized ==
                      trim_start_matches(trim_start_matches(token[1], A_PREFIX), B_PREFIX)
                IN  IF normalized = << >> THEN Absent ELSE Some(normalized)

Contains(files, path) == \E i \in DOMAIN files : files[i] = path

RECURSIVE extract_files_loop(_, _)
extract_files_loop(lines, files) ==
  IF lines = << >>
  THEN files
  ELSE LET path == extract_path_from_diff_line(Head(lines))
       IN  extract_files_loop(Tail(lines),
             IF path # Absent /\ ~Contains(files, path[1])
             THEN Append(files, path[1])
             ELSE files)

extract_files_from_diff(diff) == extract_files_loop(diff, << >>)

NoDiffCall == [fn |-> "none", files |-> << >>]
DiffIdle == diffin = << >> /\ diffout = NoDiffCall

DExtractFiles ==
  /\ diffout.fn = "none"
  /\ diffout' = [fn |-> "extract_files_from_diff", files |-> extract_files_from_diff(diffin)]
  /\ UNCHANGED diffin
  /\ UNCHANGED << logVars, execVars, clientVars, parseVars, readVars, handlerVars,
                  runIdVars, settingsVars, sseVars, roundTripVars, retryVars, idVars >>

\* ------------------------------------------------------- retry delays
\* Durations are milliseconds.
RETRY_BASE_MILLIS == 100
RETRY_MAX_SECS == 30
RETRY_FACTOR == 2
JITTER_DIVISOR == 2
RetryMaxMillis == RETRY_MAX_SECS * 1000

\* tokio_retry::strategy::ExponentialBackoff. from_millis(base) starts with
\* current = base and factor 1; factor and max_delay set their fields.
from_millis(base) == [current |-> base, base |-> base, factor |-> 1, max_delay |-> Absent]
factor(backoff, f) == [backoff EXCEPT !.factor = f]
max_delay(backoff, d) == [backoff EXCEPT !.max_delay = Some(d)]

\* ExponentialBackoff::next: the delay is current * factor; past max_delay the
\* delay is max_delay and current stays; otherwise current is multiplied by base.
backoff_next(backoff) ==
  LET duration == backoff.current * backoff.factor
  IN  IF backoff.max_delay # Absent /\ duration > backoff.max_delay[1]
      THEN [delay |-> backoff.max_delay[1], backoff |-> backoff]
      ELSE [delay |-> duration,
            backoff |-> [backoff EXCEPT !.current = backoff.current * backoff.base]]

\* The largest jitter apply_jitter can add to a delay.
max_jitter(duration) == duration \div JITTER_DIVISOR

\* gen_range(0..=max_jitter): the ends of the range, their neighbours and the
\* middle stand for the values the generator can give.
JitterDrawn(duration) ==
  {0, 1, max_jitter(duration) \div 2, max_jitter(duration) - 1, max_jitter(duration)}
    \cap (0 .. max_jitter(duration))

apply_jitter(duration, jitter_ms) ==
  IF duration = 0 THEN duration ELSE duration + jitter_ms

\* build_retry_strategy: the backoff before any delay was taken, and take(max_retries).
build_retry_delays(retries) ==
  [backoff |-> max_delay(factor(from_millis(RETRY_BASE_MILLIS), RETRY_FACTOR),
                         RetryMaxMillis),
   left |-> retries]

NoStrategy == [backoff |-> from_millis(0), left |-> 0]
RetryIdle == retry = NoStrategy /\ slept = << >>

\* The retry loop asks the strategy for its next delay.
RNextDelay ==
  /\ retry.left > 0
  /\ LET n == backoff_next(retry.backoff)
     IN  /\ retry' = [backoff |-> n.backoff, left |-> retry.left - 1]
         /\ \E jitter_ms \in JitterDrawn(n.delay) :
              slept' = Append(slept, apply_jitter(n.delay, jitter_ms))
  /\ UNCHANGED << logVars, execVars, clientVars, parseVars, readVars, handlerVars,
                  runIdVars, settingsVars, sseVars, roundTripVars, diffVars, idVars >>

\* ----------------------------------------------------- run identifiers
\* Utc::now() read at clock reading t: the millisecond the reading falls in.
timestamp_millis(t) == t \div TicksPerMilli

RunIdCallers == {"execute_with_logging", "execute", "execute_streaming"}

LastReading == IF runids = << >> THEN 0 ELSE runids[Len(runids)].at

IdIdle == runids = << >>

\* One of the three entry points starts: its first statement is generate_run_id().
IdGenerate(fn) ==
  /\ Len(runids) < MaxCalls
  /\ \E t \in LastReading .. MaxTicks :
       runids' = Append(runids, [fn |-> fn, at |-> t,
                                 run_id |-> generate_run_id(timestamp_millis(t))])
  /\ UNCHANGED << logVars, execVars, clientVars, parseVars, readVars, handlerVars,
                  runIdVars, settingsVars, sseVars, roundTripVars, diffVars, retryVars >>

TailIdle == DiffIdle /\ RetryIdle /\ IdIdle

\* ----------------------------------------------------------------- Init
\* Everything but the log file and the parser's input: nothing is open, no call
\* was made.
InitBase ==
  /\ walive = [w \in Writers |-> FALSE]
  /\ wbuf = [w \in Writers |-> << >>]
  /\ wseq = [w \in Writers |-> 0]
  /\ rstate = [r \in Readers |-> "closed"]
  /\ faults = 0
  /\ opens = 0
  /\ nappends = 0
  /\ appended = << >>
  /\ opFailed = FALSE
  /\ dropLost = FALSE
  /\ everSynced = FALSE
  /\ wfloor = [w \in Writers |-> 0]
  /\ lastOp = [op |-> "init", who |-> "", res |-> ""]
  /\ pc = "idle"
  /\ xw = ""
  /\ xrun = NoRun
  /\ xlog = << >>
  /\ ret = NoRet
  /\ clock = 1
  /\ nruns = 0
  /\ httpCalls = 0
  /\ max_retries = DEFAULT_MAX_RETRIES
  /\ cpc = "idle"
  /\ clast = NoAttempt
  /\ cattempts = 0
  /\ cleft = 0
  /\ cret = [ok |-> FALSE, err |-> NoError]
  /\ cyield = << >>
  /\ rpos = [r \in Readers |-> 0]
  /\ rlineno = [r \in Readers |-> 0]
  /\ ritems = [r \in Readers |-> << >>]
  /\ rloaded = NoLoad
  /\ rfilt = NoFilter
  /\ pout = NoOutput

Init ==
  /\ exists \in BOOLEAN
  /\ file \in (IF exists THEN InitContents ELSE {<< >>})
  /\ initLen = Len(file)
  /\ pin = NoInput
  /\ fitems = << >>
  /\ HandlerIdle
  /\ RunIdIdle
  /\ SettingsIdle
  /\ SseIdle
  /\ RoundTripIdle
  /\ TailIdle
  /\ InitBase

\* ------------------------------------------------------ writer operations
WOpen(w) ==
  /\ ~walive[w]
  /\ opens < MaxOpens
  /\ exists' = TRUE
  /\ IF ~try_lock_exclusive(w)
     THEN /\ lastOp' = [op |-> "wopen", who |-> w, res |-> "EventLogLocked"]
          /\ UNCHANGED << walive, wbuf, wseq, wfloor, opens >>
     ELSE IF ~scan_succeeds(file)
     THEN /\ opens' = opens + 1
          /\ lastOp' = [op |-> "wopen", who |-> w, res |-> "IoError"]
          /\ UNCHANGED << walive, wbuf, wseq, wfloor >>
     ELSE /\ walive' = [walive EXCEPT ![w] = TRUE]
          /\ wbuf' = [wbuf EXCEPT ![w] = << >>]
          /\ wseq' = [wseq EXCEPT ![w] = next_seq_after(scan_max_event_seq(file))]
          /\ wfloor' = [wfloor EXCEPT ![w] = MaxDecodableSeq(file)]
          /\ opens' = opens + 1
          /\ lastOp' = [op |-> "wopen", who |-> w, res |-> "ok"]
  /\ UNCHANGED << file, initLen, rstate, faults, nappends, appended, opFailed, dropLost,
                  everSynced >>
  /\ UNCHANGED << execVars, moreVars >>

\* The effect of one append outcome on the writer, the file and the history.
ApplyAppend(w, e, o) ==
  /\ file' = o.file
  /\ wbuf' = [wbuf EXCEPT ![w] = o.buf]
  /\ wseq' = [wseq EXCEPT ![w] = o.seq]
  /\ faults' = Bump(o.ok)
  /\ appended' = IF o.ok
                 THEN Append(appended, [seq |-> wseq[w], run |-> e.run, type |-> e.type,
                                        life |-> opens, floor |-> wfloor[w]])
                 ELSE appended
  /\ opFailed' = (opFailed \/ ~o.ok)

WAppend(w) ==
  /\ walive[w]
  /\ ~Busy(w)
  /\ nappends < MaxAppends
  /\ \E e \in DirectEvents :
       \E o \in AppendOutcomes(wbuf[w], file, wseq[w], e) :
         /\ ApplyAppend(w, e, o)
         /\ lastOp' = [op |-> "append", who |-> w, res |-> o.err]
  /\ nappends' = nappends + 1
  /\ UNCHANGED << exists, initLen, walive, rstate, opens, dropLost, everSynced, wfloor >>
  /\ UNCHANGED << execVars, moreVars >>

WSync(w) ==
  /\ walive[w]
  /\ ~Busy(w)
  /\ \E o \in SyncOutcomes(wbuf[w], file) :
       /\ file' = o.file
       /\ wbuf' = [wbuf EXCEPT ![w] = o.buf]
       /\ faults' = Bump(o.ok)
       /\ opFailed' = (opFailed \/ ~o.ok)
       /\ lastOp' = [op |-> "sync", who |-> w, res |-> IF o.ok THEN "none" ELSE "IoError"]
  /\ everSynced' = TRUE
  /\ UNCHANGED << exists, initLen, walive, wseq, rstate, opens, nappends, appended,
                  dropLost, wfloor >>
  /\ UNCHANGED << execVars, moreVars >>

\* Mutant: the writer is dropped without flushing its buffer.
DropWithoutFlush(buf, f) == {[file |-> f, buf |-> buf, ok |-> TRUE]}

\* What Drop does to the file: self.writer.flush(), result ignored.
DropOutcomes(buf, f) == FlushOutcomes(buf, f)

\* Drop: flush, error ignored; the BufWriter and the File are then dropped, which
\* releases the lock and discards what is still buffered.
WDrop(w) ==
  /\ walive[w]
  /\ ~Busy(w)
  /\ \E o \in DropOutcomes(wbuf[w], file) :
       /\ file' = o.file
       /\ faults' = Bump(o.ok)
       /\ dropLost' = (dropLost \/ ~o.ok)
  /\ walive' = [walive EXCEPT ![w] = FALSE]
  /\ wbuf' = [wbuf EXCEPT ![w] = << >>]
  /\ wseq' = [wseq EXCEPT ![w] = 0]
  /\ lastOp' = [op |-> "wdrop", who |-> w, res |-> "none"]
  /\ UNCHANGED << exists, initLen, rstate, opens, nappends, appended, opFailed,
                  everSynced, wfloor >>
  /\ UNCHANGED << execVars, moreVars >>

\* ------------------------------------------------------ reader operations
ROpen(r) ==
  /\ rstate[r] = "closed"
  /\ IF ~exists
     THEN /\ lastOp' = [op |-> "ropen", who |-> r, res |-> "EventLogNotFound"]
          /\ UNCHANGED rstate
     ELSE IF lock_shared_granted
     THEN /\ rstate' = [rstate EXCEPT ![r] = "open"]
          /\ lastOp' = [op |-> "ropen", who |-> r, res |-> "ok"]
     ELSE /\ rstate' = [rstate EXCEPT ![r] = "waiting"]
          /\ lastOp' = [op |-> "ropen", who |-> r, res |-> "blocked"]
  /\ UNCHANGED << exists, file, initLen, walive, wbuf, wseq, faults, opens, nappends,
                  appended, opFailed, dropLost, everSynced, wfloor >>
  /\ StartReading(r)
  /\ UNCHANGED << execVars, restVars >>

\* lock_shared returns once no exclusive lock is held.
RAcquire(r) ==
  /\ rstate[r] = "waiting"
  /\ lock_shared_granted
  /\ rstate' = [rstate EXCEPT ![r] = "open"]
  /\ lastOp' = [op |-> "ropen", who |-> r, res |-> "ok"]
  /\ UNCHANGED << exists, file, initLen, walive, wbuf, wseq, faults, opens, nappends,
                  appended, opFailed, dropLost, everSynced, wfloor >>
  /\ StartReading(r)
  /\ UNCHANGED << execVars, restVars >>

RDrop(r) ==
  /\ rstate[r] = "open"
  /\ rstate' = [rstate EXCEPT ![r] = "closed"]
  /\ lastOp' = [op |-> "rdrop", who |-> r, res |-> "none"]
  /\ UNCHANGED << exists, file, initLen, walive, wbuf, wseq, faults, opens, nappends,
                  appended, opFailed, dropLost, everSynced, wfloor >>
  /\ UNCHANGED << execVars, moreVars >>

\* ------------------------------------------------- execute_with_logging
\* The effect of an arm's outcome o, which appended the first o.n events of es.
ApplyArm(w, es, o) ==
  /\ file' = o.file
  /\ wbuf' = [wbuf EXCEPT ![w] = o.buf]
  /\ wseq' = [wseq EXCEPT ![w] = o.seq]
  /\ faults' = Bump(~o.fault)
  /\ opFailed' = (opFailed \/ o.fault)
  /\ appended' = appended \o
       [i \in 1 .. o.n |-> [seq |-> wseq[w] + i - 1, run |-> es[i].run, type |-> es[i].type,
                             life |-> opens, floor |-> wfloor[w]]]
  /\ everSynced' = (everSynced \/ o.synced)
  /\ ret' = o.ret
  /\ pc' = "idle"
  /\ lastOp' = [op |-> "exec", who |-> w, res |-> o.ret.err]

\* A dry run: execute_internal returns Ok(empty) without suspending, so the
\* call runs from generate_run_id to its return in one piece.
ExecDryRun(w) ==
  /\ pc = "idle"
  /\ walive[w]
  /\ nruns < MaxRuns
  /\ \E now \in clock .. MaxClock :
       LET run_id == generate_run_id(now)
           es == << executor_started(run_id) >> \o OkArmEvents(run_id, << >>)
       IN /\ clock' = now
          /\ xrun' = run_id
          /\ \E o \in ArmOutcomes(wbuf[w], file, wseq[w], es, OkArmReturn(<< >>)) :
               /\ ApplyArm(w, es, o)
               /\ xlog' = IF o.log[1].ok
                          THEN << o.log[1], InternalEntry(OkResult(<< >>)) >> \o Tail(o.log)
                          ELSE o.log
  /\ xw' = w
  /\ nruns' = nruns + 1
  /\ UNCHANGED << exists, initLen, walive, rstate, opens, nappends, dropLost, wfloor,
                  httpCalls >>
  /\ UNCHANGED moreVars

\* Mutant: the error of the first append is ignored.
StartedAppendedOrNot(ok) == TRUE

\* `writer.append(&started)?`: the call goes on only when the append returned Ok.
StartedAppended(ok) == ok

\* A run that is not dry, up to the await of the streamed request:
\* generate_run_id, append executor.started (an error returns), send the request.
ExecBegin(w) ==
  /\ pc = "idle"
  /\ walive[w]
  /\ nruns < MaxRuns
  /\ \E now \in clock .. MaxClock :
       LET run_id == generate_run_id(now)
           e == executor_started(run_id)
       IN /\ clock' = now
          /\ xrun' = run_id
          /\ \E o \in AppendOutcomes(wbuf[w], file, wseq[w], e) :
               /\ ApplyAppend(w, e, o)
               /\ IF StartedAppended(o.ok)
                  THEN /\ pc' = "await"
                       /\ ret' = NoRet
                       /\ xlog' = << LogEntry("append", e, o.ok), HttpEntry >>
                       /\ httpCalls' = httpCalls + 1
                       /\ lastOp' = [op |-> "exec_begin", who |-> w, res |-> "none"]
                  ELSE /\ pc' = "idle"
                       /\ ret' = ErrResult(o.err, "log")
                       /\ xlog' = << LogEntry("append", e, FALSE) >>
                       /\ httpCalls' = httpCalls
                       /\ lastOp' = [op |-> "exec", who |-> w, res |-> o.err]
  /\ xw' = w
  /\ nruns' = nruns + 1
  /\ UNCHANGED << exists, initLen, walive, rstate, opens, nappends, dropLost, everSynced,
                  wfloor >>
  /\ UNCHANGED moreVars

\* execute_internal returned: the match on its result, to the return.
ExecResume ==
  /\ pc = "await"
  /\ \E result \in InternalResults(xrun) :
       LET es == IF result.ok THEN OkArmEvents(xrun, result.actions)
                              ELSE ErrArmEvents(xrun)
           value == IF result.ok THEN OkArmReturn(result.actions)
                                 ELSE ErrArmReturn(result)
       IN \E o \in ArmOutcomes(wbuf[xw], file, wseq[xw], es, value) :
            /\ ApplyArm(xw, es, o)
            /\ xlog' = xlog \o << InternalEntry(result) >> \o o.log
  /\ UNCHANGED << exists, initLen, walive, rstate, opens, nappends, dropLost, wfloor,
                  xw, xrun, clock, nruns, httpCalls >>
  /\ UNCHANGED moreVars

\* The event log written directly: sequential and competing writers of one path.
Next ==
  \/ \E w \in Writers : WOpen(w)
  \/ \E w \in Writers : WAppend(w)
  \/ \E w \in Writers : WSync(w)
  \/ \E w \in Writers : WDrop(w)

Spec == Init /\ [][Next]_vars

\* EventLogWriter::open on a file holding any lines.
LogLines ==
  {<< >>, << WS >>, << JUNK >>, << BIN >>, << RawObj(0) >>, << RawObj(1) >>,
   << RawObj(2) >>, << RawObj(3) >>}

RECURSIVE JoinLines(_)
JoinLines(ls) == IF ls = << >> THEN << >> ELSE Head(ls) \o << NL >> \o JoinLines(Tail(ls))

\* The lines joined, each with its newline, or the last one without.
ExistingContents ==
  {JoinLines(ls) : ls \in SeqsUpTo(LogLines, MaxLines)}
    \cup {SubSeq(JoinLines(ls), 1, Len(JoinLines(ls)) - 1) :
            ls \in SeqsUpTo(LogLines, MaxLines) \ {<< >>}}

NextOpen == \E w \in Writers : WOpen(w)

InitOpen ==
  /\ exists = TRUE
  /\ file \in ExistingContents
  /\ initLen = Len(file)
  /\ pin = NoInput
  /\ fitems = << >>
  /\ HandlerIdle
  /\ RunIdIdle
  /\ SettingsIdle
  /\ SseIdle
  /\ RoundTripIdle
  /\ TailIdle
  /\ InitBase

SpecOpen == InitOpen /\ [][NextOpen]_vars

\* The locking protocol: writers and readers opening and dropping one path.
NextLock ==
  \/ \E w \in Writers : WOpen(w)
  \/ \E w \in Writers : WDrop(w)
  \/ \E r \in Readers : ROpen(r)
  \/ \E r \in Readers : RAcquire(r)
  \/ \E r \in Readers : RDrop(r)

SpecLock == Init /\ [][NextLock]_vars

\* The same with the kernel waking a blocked lock_shared once it can be granted.
SpecLockFair == SpecLock /\ \A r \in Readers : WF_vars(RAcquire(r))

\* The executor adapter logging runs through one writer.
ExecWriters == {"w1"}

NextExec ==
  \/ \E w \in ExecWriters : WOpen(w)
  \/ \E w \in ExecWriters : WDrop(w)
  \/ \E w \in ExecWriters : ExecDryRun(w)
  \/ \E w \in ExecWriters : ExecBegin(w)
  \/ ExecResume

\* The runs start on a log that is missing or empty.
InitExec == Init /\ file = << >>

SpecExec == InitExec /\ [][NextExec]_vars

\* The runs on a writer its caller has appended to before, without an error:
\* a run can find the buffer of the writer filled.
WAppendBefore(w) == nruns = 0 /\ WAppend(w) /\ faults' = faults

NextExecShared ==
  \/ \E w \in ExecWriters : WOpen(w)
  \/ \E w \in ExecWriters : WAppendBefore(w)
  \/ \E w \in ExecWriters : ExecDryRun(w)
  \/ \E w \in ExecWriters : ExecBegin(w)
  \/ ExecResume

SpecExecShared == InitExec /\ [][NextExecShared]_vars

\* One reader over a log of any content: iteration, load_all, the filters.
TheReader == {"r1"}

NextRead ==
  \/ \E r \in TheReader : ROpen(r)
  \/ \E r \in TheReader : RNext(r)
  \/ \E r \in TheReader : RLoadAll(r)

InitRead ==
  /\ exists = TRUE
  /\ file \in ReadContents
  /\ initLen = Len(file)
  /\ pin = NoInput
  /\ fitems = << >>
  /\ HandlerIdle
  /\ RunIdIdle
  /\ SettingsIdle
  /\ SseIdle
  /\ RoundTripIdle
  /\ TailIdle
  /\ InitBase

SpecRead == InitRead /\ [][NextRead]_vars

\* The filters over an iterator of any items.
NextFilter == FilterByRun \/ FilterByType

InitFilter ==
  /\ exists = FALSE
  /\ file = << >>
  /\ initLen = 0
  /\ pin = NoInput
  /\ fitems \in FilterInputs
  /\ HandlerIdle
  /\ RunIdIdle
  /\ SettingsIdle
  /\ SseIdle
  /\ RoundTripIdle
  /\ TailIdle
  /\ InitBase

SpecFilter == InitFilter /\ [][NextFilter]_vars

\* The public functions of ResponseParser on any response and run_id.
NextParse == PParse \/ PUnifiedDiffs \/ PSearchReplace \/ PJsonActions

InitParse ==
  /\ exists = FALSE
  /\ file = << >>
  /\ initLen = 0
  /\ pin \in ParseInputs
  /\ fitems = << >>
  /\ HandlerIdle
  /\ RunIdIdle
  /\ SettingsIdle
  /\ SseIdle
  /\ RoundTripIdle
  /\ TailIdle
  /\ InitBase

SpecParse == InitParse /\ [][NextParse]_vars

\* The stream handler over any stream of chunks.
NextStream == SWithCallback \/ SAccumulate

InitStream ==
  /\ exists = FALSE
  /\ file = << >>
  /\ initLen = 0
  /\ pin = NoInput
  /\ fitems = << >>
  /\ stream \in Streams
  /\ sendres = [ok |-> TRUE, err |-> NoError]
  /\ dry_run = FALSE
  /\ on_chunk = << >>
  /\ hout = NoCall
  /\ RunIdIdle
  /\ SettingsIdle
  /\ SseIdle
  /\ RoundTripIdle
  /\ TailIdle
  /\ InitBase

SpecStream == InitStream /\ [][NextStream]_vars

\* One call of the Executor trait, for any options, transport and stream.
NextAdapter == AExecute \/ AExecuteStreaming

InitAdapter ==
  /\ exists = FALSE
  /\ file = << >>
  /\ initLen = 0
  /\ pin = NoInput
  /\ fitems = << >>
  /\ stream \in Streams
  /\ sendres \in SendResults
  /\ dry_run \in BOOLEAN
  /\ on_chunk = << >>
  /\ hout = NoCall
  /\ RunIdIdle
  /\ SettingsIdle
  /\ SseIdle
  /\ RoundTripIdle
  /\ TailIdle
  /\ InitBase

SpecAdapter == InitAdapter /\ [][NextAdapter]_vars

\* The two validations of a run_id, on any text.
NextRunId == VParse \/ VForRun

InitRunId ==
  /\ exists = FALSE
  /\ file = << >>
  /\ initLen = 0
  /\ pin = NoInput
  /\ fitems = << >>
  /\ HandlerIdle
  /\ rid \in RunIdTexts
  /\ rout = NoRunIdCall
  /\ SettingsIdle
  /\ SseIdle
  /\ RoundTripIdle
  /\ TailIdle
  /\ InitBase

SpecRunId == InitRunId /\ [][NextRunId]_vars

\* validate on any settings value.
NextValidate == SValidate

InitValidate ==
  /\ exists = FALSE
  /\ file = << >>
  /\ initLen = 0
  /\ pin = NoInput
  /\ fitems = << >>
  /\ HandlerIdle
  /\ RunIdIdle
  /\ settings \in SettingsValues
  /\ cfgfile = NoFile
  /\ cfgout = NoSettingsCall
  /\ SseIdle
  /\ RoundTripIdle
  /\ TailIdle
  /\ InitBase

SpecValidate == InitValidate /\ [][NextValidate]_vars

\* load_with_config_path on any state of the path.
NextLoad == SLoadWithConfigPath

InitLoad ==
  /\ exists = FALSE
  /\ file = << >>
  /\ initLen = 0
  /\ pin = NoInput
  /\ fitems = << >>
  /\ HandlerIdle
  /\ RunIdIdle
  /\ settings = NoSettings
  /\ cfgfile \in ConfigFiles
  /\ cfgout = NoSettingsCall
  /\ SseIdle
  /\ RoundTripIdle
  /\ TailIdle
  /\ InitBase

SpecLoad == InitLoad /\ [][NextLoad]_vars

\* Helper events appended to a new log and read back.
NextRoundTrip == RTAppend \/ RTLoadAll

InitRoundTrip ==
  /\ exists = FALSE
  /\ file = << >>
  /\ initLen = 0
  /\ pin = NoInput
  /\ fitems = << >>
  /\ HandlerIdle
  /\ RunIdIdle
  /\ SettingsIdle
  /\ SseIdle
  /\ rtin \in SeqsUpTo(HelperEvents, MaxEvents)
  /\ rtout = NoRoundTrip
  /\ TailIdle
  /\ InitBase

SpecRoundTrip == InitRoundTrip /\ [][NextRoundTrip]_vars

\* The stream chat_completion_stream returns, over any body.
NextSse == SsePoll

InitSse ==
  /\ exists = FALSE
  /\ file = << >>
  /\ initLen = 0
  /\ pin = NoInput
  /\ fitems = << >>
  /\ HandlerIdle
  /\ RunIdIdle
  /\ SettingsIdle
  /\ body \in Bodies
  /\ sst = NewStreamState
  /\ syield = << >>
  /\ shist = NoHistory
  /\ RoundTripIdle
  /\ TailIdle
  /\ InitBase

SpecSse == InitSse /\ [][NextSse]_vars

\* extract_files_from_diff on any diff of header and other lines.
NextDiff == DExtractFiles

InitDiff ==
  /\ exists = FALSE
  /\ file = << >>
  /\ initLen = 0
  /\ pin = NoInput
  /\ fitems = << >>
  /\ HandlerIdle
  /\ RunIdIdle
  /\ SettingsIdle
  /\ SseIdle
  /\ RoundTripIdle
  /\ diffin \in SeqsUpTo(DiffLines, MaxDiffLines)
  /\ diffout = NoDiffCall
  /\ RetryIdle
  /\ IdIdle
  /\ InitBase

SpecDiff == InitDiff /\ [][NextDiff]_vars

\* The delays of the retry strategy send_with_retry builds.
NextRetry == RNextDelay

InitRetry ==
  /\ exists = FALSE
  /\ file = << >>
  /\ initLen = 0
  /\ pin = NoInput
  /\ fitems = << >>
  /\ HandlerIdle
  /\ RunIdIdle
  /\ SettingsIdle
  /\ SseIdle
  /\ RoundTripIdle
  /\ DiffIdle
  /\ retry \in {build_retry_delays(n) : n \in 0 .. DEFAULT_MAX_RETRIES}
  /\ slept = << >>
  /\ IdIdle
  /\ InitBase

SpecRetry == InitRetry /\ [][NextRetry]_vars

\* The run identifiers of successive executor calls.
NextIds == \E fn \in RunIdCallers : IdGenerate(fn)

InitIds ==
  /\ exists = FALSE
  /\ file = << >>
  /\ initLen = 0
  /\ pin = NoInput
  /\ fitems = << >>
  /\ HandlerIdle
  /\ RunIdIdle
  /\ SettingsIdle
  /\ SseIdle
  /\ RoundTripIdle
  /\ DiffIdle
  /\ RetryIdle
  /\ runids = << >>
  /\ InitBase

SpecIds == InitIds /\ [][NextIds]_vars

\* One chat_completion_stream call of the transport client.
NextClient == CWithMaxRetries \/ CSend \/ CPoll

SpecClient == Init /\ [][NextClient]_vars

\* ================================================================ claims
\* What the lines of the file carry as event_seq, in file order (-1 for a line
\* that does not decode).
FileSeqs(f) ==
  LET ls == NonEmptyLines(f)
  IN [i \in DOMAIN ls |-> IF LineDecodes(ls[i]) THEN Strip(ls[i])[1].seq ELSE 0 - 1]

Counting(n) == [i \in 1 .. n |-> i]

\* The events a reader yields as Ok, in file order.
ReaderEvents(f) ==
  LET ls == SelectSeq(Lines(f), LineIsEvent)
  IN [i \in DOMAIN ls |-> [seq |-> Strip(ls[i])[1].seq, run |-> Strip(ls[i])[1].run,
                            type |-> Strip(ls[i])[1].type]]

AppendedEvents ==
  [i \in DOMAIN appended |->
     [seq |-> appended[i].seq, run |-> appended[i].run, type |-> appended[i].type]]

C2_SingleWriter ==
  /\ Cardinality(AliveWriters) <= 1
  /\ (lastOp.op = "wopen" /\ AliveWriters \ {lastOp.who} # {})
       => (lastOp.res = "EventLogLocked" /\ ~walive[lastOp.who])

\* A second open has just failed while the first writer is alive.
C2_Witness ==
  /\ lastOp = [op |-> "wopen", who |-> "w2", res |-> "EventLogLocked"]
  /\ walive["w1"] /\ ~walive["w2"]

\* C3: a reader and a writer never hold the lock together; a writer's open fails
\* with EventLogLocked while a reader is alive; a reader's open does not return
\* while a writer is alive; with no writer alive a reader's open succeeds
\* whatever other readers are alive.
C3_ReaderWriterExclusion ==
  /\ ~(AliveWriters # {} /\ OpenReaders # {})
  /\ (lastOp.op = "wopen" /\ OpenReaders # {}) => lastOp.res = "EventLogLocked"
  /\ (lastOp.op = "ropen" /\ AliveWriters # {})
       => (lastOp.res = "blocked" /\ rstate[lastOp.who] = "waiting")
  /\ (lastOp.op = "ropen" /\ AliveWriters = {} /\ exists)
       => (lastOp.res = "ok" /\ rstate[lastOp.who] = "open")

\* Both readers are alive and a writer's open has just been refused.
C3_Witness ==
  /\ OpenReaders = Readers
  /\ lastOp.op = "wopen" /\ lastOp.res = "EventLogLocked"

\* ---- the last execute_with_logging call, read off xlog
Appends == {i \in DOMAIN xlog : xlog[i].op = "append" /\ xlog[i].ok}
AppendAttempts == {i \in DOMAIN xlog : xlog[i].op = "append"}
Terminal(type) == type \in {"executor.completed", "executor.failed"}
Returned == pc = "idle" /\ nruns > 0

\* C4 as stated: after a successful call, the events it appended carry one
\* run_id and the identifier of every returned action starts with that run_id
\* and has the form "{run_id}-action-{n}".
C4_RunCorrelation ==
  (Returned /\ ret.ok) =>
    /\ {xlog[i].run : i \in Appends} = {xrun}
    /\ \A k \in DOMAIN ret.actions : ret.actions[k].id.prefix = xrun

\* C5: among the events of one call executor.started is the first, every
\* action.proposed follows it, the terminal event follows every other event and
\* is the last one appended, and sync() is called only after the terminal event.
C5_EventOrder ==
  /\ \A i \in Appends :
       (\A j \in Appends : i <= j) => xlog[i].type = "executor.started"
  /\ \A i \in Appends :
       xlog[i].type = "action.proposed"
         => \E j \in Appends : j < i /\ xlog[j].type = "executor.started"
  /\ \A i \in Appends :
       Terminal(xlog[i].type) => \A j \in Appends : j <= i
  /\ \A i \in DOMAIN xlog :
       xlog[i].op = "sync"
         => \E j \in Appends : j < i /\ Terminal(xlog[j].type)

\* A call returned two actions: started, two proposals, completed, then sync.
C5_Witness ==
  /\ Returned /\ ret.ok /\ Len(ret.actions) = 2
  /\ Cardinality(Appends) = 4
  /\ xlog[Len(xlog)].op = "sync"

\* C6 as stated: whenever the call returns an error, an append of
\* executor.failed has been attempted and sync() has been called after it.
C6_FailedAlwaysAttempted ==
  (Returned /\ ~ret.ok) =>
    \E i \in AppendAttempts : \E j \in DOMAIN xlog :
      /\ xlog[i].type = "executor.failed"
      /\ i < j
      /\ xlog[j].op = "sync"

\* C7 as stated: when the request or the parse failed with E, the call returns
\* E, also when the append of executor.failed or the sync after it fails.
C7_OriginalErrorReturned ==
  Returned =>
    \A i \in DOMAIN xlog :
      (xlog[i].op = "internal" /\ ~xlog[i].ok)
        => (~ret.ok /\ ret.src = "upstream" /\ ret.err = xlog[i].type)

\* C8: one call appends at most one terminal event (counting the attempts).
C8_OneTerminal ==
  Cardinality({i \in AppendAttempts : Terminal(xlog[i].type)}) <= 1

\* A failed run has logged its executor.failed.
C8_Witness ==
  /\ Returned /\ ~ret.ok /\ ret.src = "upstream"
  /\ \E i \in Appends : xlog[i].type = "executor.failed"

\* C9 as stated, for behaviours without any I/O error: every event_seq a writer
\* assigns is greater than every event_seq of a decodable line of the file it
\* opened and than those it assigned before, and no two events appended to the
\* file share an event_seq.
C9_FreshSeq ==
  faults = 0 =>
    /\ \A i \in DOMAIN appended : appended[i].seq > appended[i].floor
    /\ \A i, j \in DOMAIN appended :
         (i < j /\ appended[i].life = appended[j].life)
           => appended[i].seq < appended[j].seq
    /\ \A i, j \in DOMAIN appended : i # j => appended[i].seq # appended[j].seq

IsPrefix(s, t) == Len(s) <= Len(t) /\ SubSeq(t, 1, Len(s)) = s
Stream(w) == file \o wbuf[w]

\* C11: a successful append puts exactly one JSON object carrying the assigned
\* event_seq and then exactly one newline at the end of the log (the file
\* followed by the writer's buffer), and every step of open, append, sync and
\* drop leaves the earlier content of the file in place as a prefix.
C11_AppendOnly ==
  [][ /\ IsPrefix(file, file')
      /\ (lastOp'.op = "append" /\ lastOp'.res = "none")
           => /\ Len(appended') = Len(appended) + 1
              /\ file' \o wbuf'[lastOp'.who] =
                   Stream(lastOp'.who)
                     \o << [k |-> "obj", seq |-> appended'[Len(appended')].seq,
                            run |-> appended'[Len(appended')].run,
                            type |-> appended'[Len(appended')].type, ev |-> TRUE],
                           NL >> ]_vars

\* A successful append that pushed earlier records from the buffer into a file
\* that already had content.
C11_Witness ==
  /\ lastOp.op = "append" /\ lastOp.res = "none"
  /\ initLen > 0
  /\ Len(file) > initLen
  /\ Len(appended) >= 2

\* C12: the lock goes with its holder. A writer open fails with EventLogLocked
\* only while another writer or a reader is alive, so it succeeds after the
\* holder was dropped; and a reader blocked in lock_shared does not stay blocked
\* once no writer is alive: it returns opened (unless a writer takes the lock
\* again first, and then the same holds for that writer).
C12_LockReleased ==
  /\ [](lastOp.op = "wopen"
          => (lastOp.res = "EventLogLocked"
                <=> (AliveWriters \ {lastOp.who} # {} \/ OpenReaders # {})))
  /\ \A r \in Readers :
       (rstate[r] = "waiting" /\ AliveWriters = {})
         ~> (rstate[r] = "open" \/ AliveWriters # {})

\* The writer that blocked a reader has just been dropped.
C12_Witness ==
  /\ lastOp.op = "wdrop"
  /\ AliveWriters = {}
  /\ \E r \in Readers : rstate[r] = "waiting"

\* ---- the transport client
\* The failures the retry rule names: a timeout, a connection error, HTTP 408,
\* HTTP 429, any 5xx status.
RetryableFailure(o) ==
  \/ o.k = "send_error" /\ (o.timeout \/ o.connect)
  \/ o.k = "response" /\ (o.status \in {408, 429} \/ o.status \in 500 .. 599)
AttemptFailed(o) == o.k = "send_error" \/ (o.k = "response" /\ ~(o.status \in 200 .. 299))

\* C13: an attempt is followed by another attempt only when it failed with a
\* timeout, a connection error, 408, 429 or a 5xx status; after any other
\* failure the call has ended and returned that failure, an ApiError carrying the
\* status of the response if there was one.
C13_RetryOnlyRetryable ==
  /\ [][(cattempts' > cattempts /\ cattempts > 0) => RetryableFailure(clast)]_vars
  /\ []((AttemptFailed(clast) /\ ~RetryableFailure(clast))
          => /\ cpc = "failed"
             /\ ~cret.ok
             /\ cret.err.kind = "ApiError"
             /\ cret.err.status_code =
                  (IF clast.k = "response" THEN clast.status ELSE None))

\* A first attempt was retried and the second one was answered 401.
C13_Witness ==
  /\ cpc = "failed" /\ cattempts = 2
  /\ clast.k = "response" /\ clast.status = 401
  /\ cret.err = ApiError("body", 401)

\* C14: with the default configuration a call makes at most 4 attempts, the
\* first and 3 retries, and has returned after the 4th; the error it returns is
\* the error of its last attempt, RateLimited with retry_after Some(42) when that
\* attempt was answered 429 with Retry-After: 42.
C14_RetriesExhausted ==
  /\ max_retries = DEFAULT_MAX_RETRIES
       => /\ cattempts <= 1 + 3
          /\ cattempts = 1 + 3 => cpc # "backoff"
  /\ cpc = "failed"
       => /\ cret = [ok |-> FALSE, err |-> into_nexus(send_request(clast))]
          /\ RetryableFailure(clast) => cattempts = 1 + max_retries
          /\ (clast.k = "response" /\ clast.status = 429
                /\ clast.header = [k |-> "int", n |-> 42])
               => cret.err = RateLimited(42)

\* Four attempts, the last answered 429 with Retry-After: 42.
C14_Witness ==
  /\ max_retries = DEFAULT_MAX_RETRIES
  /\ cpc = "failed" /\ cattempts = 4
  /\ clast.status = 429
  /\ cret.err = RateLimited(42)

\* C15: once an attempt returned a success status and the stream was handed
\* out, no step makes another attempt, whatever the body gives: the call stays
\* with its stream, and what a poll meets, an error included, is an item added
\* to what the consumer has received.
C15_NoRetryWhileStreaming ==
  [][ (cpc \in {"stream", "closed"})
        => /\ cattempts' = cattempts
           /\ clast' = clast
           /\ cpc' \in {"stream", "closed"}
           /\ IsPrefix(cyield, cyield') ]_vars

\* A stream obtained at the second attempt yielded a chunk, then an error.
C15_Witness ==
  /\ cpc = "closed" /\ cattempts = 2
  /\ Len(cyield) = 2
  /\ cyield[1].k = "ok"
  /\ cyield[2] = [k |-> "err", err |-> StreamInterrupted]

\* ---- the reader
\* What the iterator is said to yield for the lines ls: one item per line that
\* is not whitespace only, Ok when the line parses as a RunEvent, otherwise
\* EventLogCorrupted with the 1-based index of the line.
ExpectedItems(ls) ==
  LET idx == SelectSeq([i \in 1 .. Len(ls) |-> i], LAMBDA i : ~LineBlank(ls[i]))
  IN [j \in DOMAIN idx |->
        IF LineIsEvent(ls[idx[j]]) THEN OkItem(Strip(ls[idx[j]])[1])
        ELSE CorruptItem(idx[j])]

\* C16 as stated: what a reader has yielded so far is, line by line and in file
\* order, one item per non-empty line it has consumed: Ok(event) when the line
\* parses, otherwise EventLogCorrupted with the 1-based index of that line,
\* the skipped whitespace-only lines counted.
C16_IterItems ==
  \A r \in Readers :
    rstate[r] = "open"
      => ritems[r] = ExpectedItems(SubSeq(Lines(file), 1, rpos[r]))

\* C17: load_all returns Ok with exactly the events the iterator yields as Ok
\* from the same position, in order, the EventLogCorrupted items dropped, and
\* returns an error, the I/O error, only when reading a line fails.
C17_LoadAll ==
  rloaded.k # "none" =>
    LET items == IterAll(Lines(file), rloaded.from, rloaded.n)
    IN IF \E i \in DOMAIN items : items[i].k = "io"
       THEN rloaded.k = "err" /\ rloaded.err = IoItem
       ELSE /\ rloaded.k = "ok"
            /\ rloaded.events = SelectSeq(items, LAMBDA it : it.k = "ok")

\* load_all from the start of a log with a corrupted line and an event.
C17_Witness ==
  /\ rloaded.k = "ok" /\ rloaded.from = 0
  /\ Len(rloaded.events) = 1
  /\ \E i \in DOMAIN ritems["r1"] : ritems["r1"][i].k = "corrupt"

\* s is t with some items left out, the order kept.
RECURSIVE IsSubSeq(_, _)
IsSubSeq(s, t) ==
  IF s = << >> THEN TRUE
  ELSE IF t = << >> THEN FALSE
  ELSE IF Head(s) = Head(t) THEN IsSubSeq(Tail(s), Tail(t))
  ELSE IsSubSeq(s, Tail(t))

IsErrItem(it) == it.k # "ok"
Matches(it) ==
  it.k = "ok" /\ (IF rfilt.by = "run" THEN it.run = rfilt.run ELSE it.type = rfilt.type)

\* C18: the filters let every Err item through unchanged, keep exactly the Ok
\* events whose run_id (or event type) equals the argument, and keep the items
\* in the order they came.
C18_Filters ==
  rfilt.by # "none" =>
    /\ SelectSeq(rfilt.out, IsErrItem) = SelectSeq(fitems, IsErrItem)
    /\ SelectSeq(rfilt.out, LAMBDA it : it.k = "ok") = SelectSeq(fitems, Matches)
    /\ IsSubSeq(rfilt.out, fitems)

\* An event of another run is dropped between an error and an event that stay.
C18_Witness ==
  /\ rfilt.by = "run" /\ rfilt.run = 1
  /\ Len(fitems) = 3
  /\ fitems[1].k = "corrupt" /\ fitems[2].k = "ok" /\ fitems[2].run = CallerRun
  /\ fitems[3].k = "ok" /\ fitems[3].run = 1
  /\ rfilt.out = << fitems[1], fitems[3] >>

\* ---- the parser
Parsed == pout.fn = "parse"

\* C19 as stated: parse returns the unified-diff actions when there is at least
\* one, otherwise the search/replace actions when there is at least one,
\* otherwise what the JSON-array parsing gives; one result never holds actions
\* of two formats.
C19_AsStated ==
  Parsed =>
    /\ pin.resp.diffs > 0
         => /\ pout.result.ok
            /\ Len(pout.result.actions) = pin.resp.diffs
            /\ \A k \in DOMAIN pout.result.actions :
                 pout.result.actions[k].format = "unified"
    /\ (pin.resp.diffs = 0 /\ pin.resp.srs > 0)
         => /\ pout.result.ok
            /\ Len(pout.result.actions) = pin.resp.srs
            /\ \A k \in DOMAIN pout.result.actions :
                 pout.result.actions[k].format = "search_replace"
    /\ (pin.resp.diffs = 0 /\ pin.resp.srs = 0)
         => pout.result = parse_json_actions(pin.resp)

\* C19 amended: the same for a run_id that validate_run_id accepts; for any
\* other run_id parse returns InvalidRunId whatever the response holds.
C19_FallbackOrder ==
  Parsed =>
    /\ ~validate_run_id(pin.run_id) => pout.result = ErrResult("InvalidRunId", "upstream")
    /\ validate_run_id(pin.run_id) =>
         /\ pin.resp.diffs > 0
              => /\ pout.result.ok
                 /\ Len(pout.result.actions) = pin.resp.diffs
                 /\ \A k \in DOMAIN pout.result.actions :
                      pout.result.actions[k].format = "unified"
         /\ (pin.resp.diffs = 0 /\ pin.resp.srs > 0)
              => /\ pout.result.ok
                 /\ Len(pout.result.actions) = pin.resp.srs
                 /\ \A k \in DOMAIN pout.result.actions :
                      pout.result.actions[k].format = "search_replace"
         /\ (pin.resp.diffs = 0 /\ pin.resp.srs = 0)
              => pout.result = parse_json_actions(pin.resp)

\* A response with a diff, two search/replace blocks and a JSON array was
\* parsed under a valid run_id: one action, of format unified.
C19_Witness ==
  /\ Parsed /\ validate_run_id(pin.run_id)
  /\ pin.resp.diffs = 1 /\ pin.resp.srs = 2 /\ pin.resp.json.k = "array"
  /\ Len(pin.resp.json.ids) = 1
  /\ Len(pout.result.actions) = 1
  /\ pout.result.actions[1].format = "unified"

\* C20: the k-th action built from unified diffs or from search/replace blocks
\* has the identifier "{run_id}-action-{k}", kind patch, risk 1,
\* requires_approval true, no policy tags and no created_by; the identifiers of
\* one result are pairwise distinct and count from 1.
C20_BuiltActions ==
  pout.fn \in {"parse_unified_diffs", "parse_search_replace"} =>
    /\ \A k \in DOMAIN pout.result.actions :
         LET a == pout.result.actions[k]
         IN /\ a.id = [prefix |-> pin.run_id, n |-> k]
            /\ a.kind = "patch"
            /\ a.risk = 1
            /\ a.requires_approval
            /\ a.policy_tags = << >>
            /\ a.created_by = ""
    /\ \A j, k \in DOMAIN pout.result.actions :
         j # k => pout.result.actions[j].id # pout.result.actions[k].id

\* Two actions built from two search/replace blocks.
C20_Witness ==
  /\ pout.fn = "parse_search_replace"
  /\ Len(pout.result.actions) = 2
  /\ pout.result.actions[2].id = [prefix |-> pin.run_id, n |-> 2]

\* ---- the executor without a log
Executed == hout.fn \in {"execute", "execute_streaming"}

\* C21: with options.dry_run, execute and execute_streaming return an empty
\* action list and issue no HTTP request; execute_streaming invokes the
\* callback exactly once, with Done, and never with Text.
C21_DryRun ==
  (Executed /\ dry_run) =>
    /\ hout.result = OkResult(<< >>)
    /\ httpCalls = 0
    /\ hout.fn = "execute_streaming" => on_chunk = << Done >>
    /\ hout.fn = "execute" => on_chunk = << >>

\* A dry run of execute_streaming where the transport would have answered with
\* a stream carrying text.
C21_Witness ==
  /\ hout.fn = "execute_streaming" /\ dry_run
  /\ sendres.ok
  /\ Len(stream) = 2
  /\ with_callback(stream).ok
  /\ with_callback(stream).content = << "d", "s" >>
  /\ on_chunk = << Done >>

\* ---- run_id validation
\* The run_ids invariant I4 excludes: empty after trim, with a '/', a '\' or
\* "..", or longer than 255 bytes.
RunIdBytes == Len(rid) + Cardinality({i \in DOMAIN rid : rid[i] = "e"})
RunIdExcluded ==
  \/ {i \in DOMAIN rid : rid[i] # " "} = {}
  \/ \E i \in DOMAIN rid : rid[i] \in {"/", "\\"}
  \/ \E i \in 1 .. Len(rid) - 1 : SubSeq(rid, i, i + 1) = << ".", "." >>
  \/ RunIdBytes > 255

Excluded(p) ==
  \/ \E i \in 1 .. Len(p) - 1 : p[i] = "." /\ p[i + 1] = "."
  \/ Len(p) >= 1 /\ p[1] = "/" /\ ~(Len(p) >= 4 /\ SubSeq(p, 1, 4) = << "/", "*", "*", "/" >>)
  \/ Len(p) >= 2 /\ p[1] = "a" /\ p[2] = ":"
  \/ Len(p) >= 2 /\ p[1] = "\\" /\ p[2] = "\\"
  \/ \E i \in DOMAIN p : p[i] = "^"
HasExcluded(st) ==
  \/ \E i \in DOMAIN st.deny_paths : Excluded(st.deny_paths[i])
  \/ \E i \in DOMAIN st.allow_paths_write : Excluded(st.allow_paths_write[i])
Validated == cfgout.fn = "validate"

\* C23 as stated: validate() returns InvalidPathPattern for every settings
\* value with an excluded pattern in deny_paths or allow_paths_write, and
\* rejects no pattern that is not excluded.
C23_AsStated ==
  Validated =>
    (cfgout.result.source = "InvalidPathPattern" <=> HasExcluded(settings))

\* C23 amended: the same for settings whose schema_version is "1.0"; under any
\* other schema_version validate() returns InvalidSchemaVersion whatever the
\* patterns are.
C23_PathPatterns ==
  Validated =>
    /\ settings.schema_version = << "1", ".", "0" >>
         => (cfgout.result.source = "InvalidPathPattern" <=> HasExcluded(settings))
    /\ settings.schema_version # << "1", ".", "0" >>
         => cfgout.result.source = "InvalidSchemaVersion"

\* The pattern "/**/" was accepted in allow_paths_write.
C23_Witness ==
  /\ Validated
  /\ cfgout.result.ok
  /\ Len(settings.allow_paths_write) = 2
  /\ settings.allow_paths_write[2] = << "/", "*", "*", "/" >>

\* C24: load_with_config_path returns settings only when they were read from
\* the file and passed validate(); a missing path gives ConfigLoad with a
\* not-found error, an empty or whitespace-only file ConfigParse, invalid JSON
\* ConfigParse, a validation failure ConfigValidation.
Loaded == cfgout.fn = "load_with_config_path"
RECURSIVE SplitEvents(_)
SplitEvents(bytes) ==
  IF find_delimiter(bytes) = 0 THEN << >>
  ELSE << SubSeq(bytes, 1, find_delimiter(bytes) - 1) >>
         \o SplitEvents(SubSeq(bytes, find_delimiter(bytes) + Len(SSE_DELIMITER), Len(bytes)))

IsDoneEvent(event) == event # << >> /\ parse_event(event).k = "done"

\* The chunks of the events in front of the first [DONE] event, in order.
ChunksBeforeDone(bytes) ==
  LET evs == SplitEvents(bytes)
      d == CHOOSE i \in DOMAIN evs :
             IsDoneEvent(evs[i]) /\ \A j \in 1 .. i - 1 : ~IsDoneEvent(evs[j])
      before == SelectSeq(SubSeq(evs, 1, d - 1),
                          LAMBDA e : e # << >> /\ parse_event(e).k = "chunk")
  IN [i \in DOMAIN before |-> OkChunk(ChunkOf(parse_event(before[i]).tok))]

\* C27: once an event whose data is exactly [DONE] has been met, the stream
\* returns the chunks of the events in front of it, in order and nothing else,
\* and then returns None: no chunk of a later event, no error for the bytes
\* left, and no further read of the body.
C27_AfterDone ==
  /\ [](shist.sentinel =>
          /\ IsPrefix(syield, ChunksBeforeDone(shist.bytes))
          /\ (shist.ended => syield = ChunksBeforeDone(shist.bytes)))
  /\ [][shist.sentinel =>
          /\ body' = body
          /\ sst'.buffer = sst.buffer
          /\ shist'.ended = (sst.pending = << >>)]_vars

\* [DONE] in the middle of one read: the chunk before it was returned, the
\* complete chunk event after it is still in the buffer, the stream has ended.
C27_Witness ==
  /\ shist.sentinel
  /\ shist.ended
  /\ syield = << OkChunk(ChunkOf("c1")) >>
  /\ sst.buffer = << "c2", "n", "n" >>
  /\ body.reads # << >>

\* C28: when the body ends without [DONE], bytes left in the buffer (they hold
\* no delimiter) make StreamInterrupted the last item of the stream; an empty
\* buffer ends the stream with no error item.
C28_EndOfBody ==
  /\ [](shist.eof =>
          /\ ~shist.sentinel
          /\ find_delimiter(sst.buffer) = 0
          /\ IF sst.buffer # << >>
             THEN /\ syield # << >>
                  /\ syield[Len(syield)] = ErrChunk(StreamInterrupted)
                  /\ sst.done /\ sst.pending = << >>
             ELSE /\ shist.ended
                  /\ \A i \in DOMAIN syield : syield[i].ok)
  /\ [][shist.eof => syield' = syield /\ shist'.ended]_vars

\* A chunk was returned, then the body ended in the middle of an event.
C28_Witness ==
  /\ shist.eof
  /\ shist.ended
  /\ sst.buffer = << "c1" >>
  /\ syield = << OkChunk(ChunkOf("c2")), ErrChunk(StreamInterrupted) >>


\* ------------------------------------------------------------ C29 and C30
\* The items with_callback folds: all of them, or those in front of the first
\* error.
RECURSIVE ItemsFolded(_)
ItemsFolded(items) ==
  IF items = << >> \/ ~Head(items).ok THEN << >>
  ELSE << Head(items) >> \o ItemsFolded(Tail(items))

HasFirstContent(item) ==
  Len(item.chunk.choices) >= 1 /\ item.chunk.choices[1].content # Absent

HasFirstStop(item) ==
  Len(item.chunk.choices) >= 1 /\ item.chunk.choices[1].finish_reason = << "stop" >>

\* The delta contents of the first choice of the items, in order.
FirstContents(items) ==
  LET withc == SelectSeq(items, HasFirstContent)
  IN [i \in DOMAIN withc |-> withc[i].chunk.choices[1].content[1]]

RECURSIVE Concat(_)
Concat(texts) == IF texts = << >> THEN << >> ELSE Head(texts) \o Concat(Tail(texts))

\* The texts of the Text values the callback received, in order.
TextsSeen(calls) ==
  LET t == SelectSeq(calls, LAMBDA c : c.k = "Text")
  IN [i \in DOMAIN t |-> t[i].text]

WithCallbackReturned == hout.fn = "with_callback"

\* C29: the callback receives one Text per delta content of the first choice of
\* the chunks folded, in stream order; the string returned is the concatenation
\* of these contents, which is the concatenation of the Text values; no other
\* element of choices contributes.
C29_Accumulation ==
  WithCallbackReturned =>
    /\ TextsSeen(on_chunk) = FirstContents(ItemsFolded(stream))
    /\ hout.result.ok =>
         /\ ItemsFolded(stream) = stream
         /\ hout.result.content = Concat(FirstContents(stream))
         /\ hout.result.content = Concat(TextsSeen(on_chunk))

\* Two chunks of two choices each: the contents of the first choices are
\* returned, the content of the second choices is not.
C29_Witness ==
  /\ WithCallbackReturned
  /\ hout.result.ok
  /\ Len(stream) = 2
  /\ \A i \in 1 .. 2 : Len(stream[i].chunk.choices) = 2
  /\ hout.result.content = << "d", "s" >>
  /\ TextsSeen(on_chunk) = << << "d" >>, << "s" >> >>

\* The positions of Done in the callback invocations.
DonePositions(calls) == {p \in DOMAIN calls : calls[p].k = "Done"}

\* The chunks folded whose first choice has finish_reason "stop".
StopPositions(items) == {j \in DOMAIN items : HasFirstStop(items[j])}

\* C30: the callback receives as many Done as chunks folded whose first choice
\* has finish_reason "stop", none when there is no such chunk; the Done of such
\* a chunk comes after the Text of every content up to and including its own
\* and before the Text of any later chunk.
C30_DonePerStop ==
  WithCallbackReturned =>
    LET items == ItemsFolded(stream)
    IN /\ Cardinality(DonePositions(on_chunk)) = Cardinality(StopPositions(items))
       /\ \A j \in StopPositions(items) :
            \E p \in DonePositions(on_chunk) :
              /\ Cardinality({q \in DonePositions(on_chunk) : q <= p})
                   = Cardinality({i \in StopPositions(items) : i <= j})
              /\ Len(TextsSeen(SubSeq(on_chunk, 1, p)))
                   = Len(FirstContents(SubSeq(items, 1, j)))

\* A chunk with content and finish_reason "stop", then a chunk with content:
\* Text, Done, Text.
C30_Witness ==
  /\ WithCallbackReturned
  /\ hout.result.ok
  /\ Len(stream) = 2
  /\ HasFirstStop(stream[1]) /\ HasFirstContent(stream[1])
  /\ ~HasFirstStop(stream[2]) /\ HasFirstContent(stream[2])
  /\ on_chunk = << Text(stream[1].chunk.choices[1].content[1]), Done,
                   Text(stream[2].chunk.choices[1].content[1]) >>


\* -------------------------------------------------------------------- C26
\* An open that got the lock has returned.
OpenedBy(w) == lastOp.op = "wopen" /\ lastOp.who = w /\ lastOp.res # "EventLogLocked"

\* C26 as stated: an open of an existing file that gets the lock gives a writer
\* whose next sequence is 1 plus the greatest event_seq of the lines that
\* decode as JSON (1 when there is none), whatever the other lines hold.
C26_NextSequence ==
  \A w \in Writers :
    OpenedBy(w) => walive[w] /\ wseq[w] = 1 + MaxDecodableSeq(file)


\* -------------------------------------------------------------------- C25
\* The fields the round trip compares.
Compared(event) ==
  << event.v, event.run_id, event.event_type, event.time, event.actor, event.payload >>

\* C25: the events load_all returns for a log to which helper events were
\* appended are as many as were appended and equal to them, one by one in the
\* order of the appends, in v, run_id, type, time, actor and payload.
C25_RoundTrip ==
  rtout.fn = "loaded" =>
    /\ Len(rtout.loaded) = Len(rtin)
    /\ \A i \in DOMAIN rtin : Compared(rtout.loaded[i]) = Compared(rtin[i])

\* Two different events were read back, the first with strings that hold a
\* quote, a newline and a backslash and a time with nanoseconds.
C25_Witness ==
  /\ rtout.fn = "loaded"
  /\ Len(rtin) = 2
  /\ rtin[1] # rtin[2]
  /\ rtin[1].run_id = << "q", "n", "b" >>
  /\ rtin[1].time.nanos = 123456789
  /\ rtout.loaded[1].run_id = << "q", "n", "b" >>
  /\ rtout.loaded[2] = rtin[2]


\* -------------------------------------------------------------------- C31
\* The position of the first Err item of the stream (0: there is none).
FirstError(items) ==
  IF \A i \in DOMAIN items : items[i].ok THEN 0
  ELSE CHOOSE i \in DOMAIN items : ~items[i].ok /\ \A j \in 1 .. i - 1 : items[j].ok

\* C31: when the stream yields an error, with_callback returns that error, has
\* read no item after it, has made no callback invocation but those of the
\* chunks in front of it, and returns no text.
C31_ErrorShortCircuits ==
  (WithCallbackReturned /\ FirstError(stream) > 0) =>
    /\ ~hout.result.ok
    /\ hout.result.err = stream[FirstError(stream)].err
    /\ hout.result.read = FirstError(stream)
    /\ hout.result.content = << >>
    /\ on_chunk = with_callback(SubSeq(stream, 1, FirstError(stream) - 1)).calls

\* The error comes first and a chunk with text and finish_reason "stop" after
\* it: one item was read, the callback was never invoked.
C31_Witness ==
  /\ WithCallbackReturned
  /\ Len(stream) = 2
  /\ ~stream[1].ok
  /\ stream[2].ok /\ HasFirstContent(stream[2]) /\ HasFirstStop(stream[2])
  /\ ~hout.result.ok
  /\ hout.result.read = 1
  /\ on_chunk = << >>

\* ---- files named by a diff
\* One leading "a/" or "b/" removed, as the statement has it.
StripOnePrefix(token) ==
  IF starts_with(token, A_PREFIX) \/ starts_with(token, B_PREFIX)
  THEN SubSeq(token, 3, Len(token))
  ELSE token

\* The path the statement gives for a line: the first token after the prefix,
\* one leading "a/" or "b/" removed; no path for /dev/null, for a line without
\* a token and for a token that is nothing but the prefix.
StatedPath(line) ==
  IF ~(starts_with(line, DIFF_OLD) \/ starts_with(line, DIFF_NEW))
  THEN Absent
  ELSE LET token == split_whitespace_next(SubSeq(line, 5, Len(line)))
       IN  IF token = Absent \/ token = Some(DEV_NULL) \/ StripOnePrefix(token[1]) = << >>
           THEN Absent
           ELSE Some(StripOnePrefix(token[1]))

RECURSIVE StatedFiles(_, _)
StatedFiles(lines, files) ==
  IF lines = << >>
  THEN files
  ELSE LET path == StatedPath(Head(lines))
       IN  StatedFiles(Tail(lines),
             IF path # Absent /\ ~Contains(files, path[1])
             THEN Append(files, path[1])
             ELSE files)

\* C32: extract_files_from_diff returns, for the lines that start with "--- "
\* or "+++ " in order, the first whitespace-delimited token after the prefix
\* with one leading "a/" or "b/" removed, without /dev/null and keeping the
\* first occurrence of each path: "--- a/b/c" gives "b/c".
C32_FilesAsStated ==
  diffout.fn = "extract_files_from_diff" => diffout.files = StatedFiles(diffin, << >>)

\* ---- retry delays
\* min(100 ms * 2^(k-1), 30 s)
StatedBackoff(k) ==
  IF RETRY_BASE_MILLIS * 2^(k - 1) <= RetryMaxMillis
  THEN RETRY_BASE_MILLIS * 2^(k - 1)
  ELSE RetryMaxMillis

\* C33: the delay before the k-th retry is d + j with d = min(100 ms * 2^(k-1), 30 s)
\* and 0 <= j <= d/2.
C33_DelaysAsStated ==
  \A k \in DOMAIN slept :
    /\ slept[k] >= StatedBackoff(k)
    /\ slept[k] <= StatedBackoff(k) + StatedBackoff(k) \div 2

\* ---- run identifiers
\* C40: any two calls of execute_with_logging, execute or execute_streaming
\* generate distinct run identifiers, also within the same millisecond.
C40_DistinctRunIds ==
  \A i, j \in DOMAIN runids : i # j => runids[i].run_id # runids[j].run_id

\* ---- proposals logged and actions returned
\* The events of one type the last call appended, in order.
AppendedOfType(type) ==
  SelectSeq(xlog, LAMBDA e : e.op = "append" /\ e.ok /\ e.type = type)

AppendedTypes ==
  LET es == SelectSeq(xlog, LAMBDA e : e.op = "append" /\ e.ok)
  IN  [i \in DOMAIN es |-> es[i].type]

ReturnedOk == pc = "idle" /\ xlog # << >> /\ ret.ok

RequestSent == \E i \in DOMAIN xlog : xlog[i].op = "http"

\* C34: when execute_with_logging returns Ok, the action.proposed events it
\* appended are as many as the returned actions and as the action_count of
\* executor.completed, and the i-th carries the ID, kind and summary of the
\* i-th returned action; a dry run appends executor.started and
\* executor.completed with action_count 0 and no action.proposed.
C34_ProposalsMatchActions ==
  ReturnedOk =>
    LET proposed == AppendedOfType("action.proposed")
        completed == AppendedOfType("executor.completed")
    IN  /\ Len(proposed) = Len(ret.actions)
        /\ Len(completed) = 1
        /\ completed[1].count = Len(ret.actions)
        /\ \A i \in DOMAIN proposed :
             /\ proposed[i].aid = ret.actions[i].id
             /\ proposed[i].kind = action_kind_label(ret.actions[i].kind)
             /\ proposed[i].summary = ret.actions[i].summary
        /\ ~RequestSent =>
             /\ AppendedTypes = << "executor.started", "executor.completed" >>
             /\ completed[1].count = 0

\* Two actions of a JSON array, with the identifiers and kinds the array gave,
\* were returned and logged.
C34_Witness ==
  /\ ReturnedOk
  /\ RequestSent
  /\ Len(ret.actions) = 2
  /\ ret.actions[1].kind = "command"
  /\ ret.actions[2].kind = "file_create"
  /\ Len(AppendedOfType("action.proposed")) = 2

\* ---- the stream after an error, and the splitting of the body into reads
\* C35: once the stream of chat_completion_stream has yielded an Err item it
\* yields no further item: an Err item is the last item yielded.
C35_NothingAfterError ==
  \A i \in DOMAIN syield : ~syield[i].ok => i = Len(syield)

\* The items a stream yields until it returns None, from state st over body b.
RECURSIVE DrainStream(_, _)
DrainStream(st, b) ==
  LET r == poll_next(st, b, NoHistory)
  IN  IF r.item = NoneItem THEN << >> ELSE << r.item >> \o DrainStream(r.st, r.body)

\* The bytes of the whole response: those read and those never read.
ResponseBytes == shist.bytes \o Concat(body.reads)

\* The same bytes arriving in one read, the body ending the same way.
InOneRead ==
  [reads |-> IF ResponseBytes = << >> THEN << >> ELSE << ResponseBytes >>, end |-> body.end]

\* C36: the items the stream yields depend only on the concatenated response
\* bytes, not on their splitting into reads: a stream that has ended yielded
\* what it yields when the same bytes arrive in a single read.
C36_SplitIndependent ==
  (shist.ended /\ body # NoBody) => syield = DrainStream(NewStreamState, InOneRead)

\* ---- appends behind a partial last line
\* The log, as it was before any writer of this behaviour opened it, ended with
\* bytes that no newline terminates. The file only grows: its first initLen
\* tokens are the contents it started with.
StartedWithPartialLine == initLen > 0 /\ file[initLen] # NL

\* C37: if the log ended with a partial line, then once writers have opened it,
\* appended events and gone, without any I/O error, every appended event is
\* yielded as Ok by a reader and is counted by the sequence scan of the next open.
C37_AppendsAfterPartialLine ==
  (StartedWithPartialLine /\ faults = 0 /\ AliveWriters = {}) =>
    \A i \in DOMAIN appended :
      /\ \E k \in DOMAIN ReaderEvents(file) : ReaderEvents(file)[k] = AppendedEvents[i]
      /\ appended[i].seq <= scan_max_event_seq(file)

\* ---- an append that returned an error
\* The records of append() calls in the file.
RecordsInFile == {i \in DOMAIN file : file[i].ev}

\* A step in which an append returned an error.
AppendFailed == lastOp'.op = "append" /\ faults' = faults + 1

\* C38: an append that returns an error has no effect on the log: next_seq() is
\* unchanged by it, and no record other than those of the appends that returned
\* Ok is ever written to the file by a following append, sync or drop.
C38_FailedAppendNoEffect ==
  /\ [][AppendFailed => wseq' = wseq]_vars
  /\ [](Cardinality(RecordsInFile) <= Len(appended))

\* ---- no request without executor.started
StartedFailedAt(i) ==
  xlog[i].op = "append" /\ ~xlog[i].ok /\ xlog[i].type = "executor.started"

\* C39: execute_with_logging issues no HTTP request unless executor.started was
\* appended successfully before; when that append fails the call returns the
\* error and does nothing more: no request, no further append or sync.
C39_StartedBeforeRequest ==
  /\ \A i \in DOMAIN xlog :
       xlog[i].op = "http"
         => \E j \in 1 .. i - 1 :
              xlog[j].op = "append" /\ xlog[j].ok /\ xlog[j].type = "executor.started"
  /\ \A i \in DOMAIN xlog :
       StartedFailedAt(i)
         => /\ i = Len(xlog)
            /\ pc = "idle"
            /\ ~ret.ok
            /\ ret.src = "log"
            /\ ret.err \in {"Serialization", "IoError"}

\* A call that was not a dry run failed to append executor.started and returned.
C39_Witness ==
  /\ xlog # << >>
  /\ StartedFailedAt(1)
  /\ lastOp.op = "exec"
  /\ ~ret.ok

====
